---- MODULE Spec2Model ----
(***************************************************************************)
(* Retrieval and diversification core of the Mini-RAG backend:             *)
(*   VectorRetriever.applyMMR, VectorRetriever.reciprocalRankFusion,       *)
(*   VectorRetriever.retrieveWithMMR / retrieveWithMMRAndRerank and        *)
(*   RerankingService.rerankChunks / callCohereRerank.                     *)
(*                                                                         *)
(* Numbers.  JavaScript numbers are modelled as scaled integers:           *)
(*   similarity and cosine similarity in hundredths (0.9 -> 90),           *)
(*   lambda and the fusion weights in tenths (0.7 -> 7),                   *)
(*   an MMR score in thousandths (lambda * similarity).                    *)
(* NaN, -Infinity and an absent field are distinguished integers outside   *)
(* the range of every score; the Js* operators give them the IEEE-754      *)
(* behaviour the code relies on.                                           *)
(***************************************************************************)
EXTENDS Integers, Sequences, FiniteSets, TLC

VARIABLES
    op,             \* which operation the current call is: "mmr", "rrf", "pipeline",
                    \* "retrieve", "contextual", "hybrid", "multistep", "batch"
    candidates,     \* applyMMR argument: the ordered candidate chunks
    finalK,         \* applyMMR argument
    lambda,         \* applyMMR argument, in tenths
    mmrOut,         \* applyMMR outcome: [called, threw, chunks]
    denseResults,   \* reciprocalRankFusion argument
    sparseResults,  \* reciprocalRankFusion argument
    denseWeight,    \* reciprocalRankFusion argument, in tenths
    sparseWeight,   \* reciprocalRankFusion argument, in tenths
    rrfOut,         \* reciprocalRankFusion outcome: [called, records]
    useReranking,   \* retrieveWithMMRAndRerank option
    rerankTopN,     \* retrieveWithMMRAndRerank option
    pc,             \* where the request is suspended, or how it ended
    attempt,        \* callCohereRerank parameter attempt
    rerankCalls,    \* invocations of cohere.v2.rerank made by the request so far
    rerankFailures, \* how many of them threw
    lastError,      \* the error of the last external call that failed
    lastResponse, \* the last response received from the Reranker
    mmrResults,     \* value of retrieveWithMMR held by retrieveWithMMRAndRerank
    response,       \* what the request returned or threw
    delays,         \* the delays callCohereRerank waited for in the current rerankChunks call
    mmrCalls,       \* invocations of applyMMR made by the request so far
    steps,          \* multiStepRetrieve option
    step,           \* multiStepRetrieve loop counter
    allResults,     \* multiStepRetrieve accumulator
    queryChunkPairs, \* batchRerank argument
    batchTopN,      \* batchRerank argument options.topN
    pairIndex,      \* batchRerank loop counter i
    batchResults,   \* batchRerank results
    batchErrors,    \* batchRerank errors
    embedded,       \* the texts the request passed to generateEmbedding so far
    rerankRequest,  \* the request of the last callCohereRerank call: documents and topN
    filterSource,   \* option source of the retrieval request
    inputChunks,    \* advancedRerank argument chunks
    multiStage,     \* advancedRerank option
    intermediateN,  \* advancedRerank option
    topNOption,     \* advancedRerank option topN
    firstStage,     \* advancedRerank: value of the first rerankChunks call
    rerankChunksCalls, \* calls of rerankChunks made by advancedRerank so far
    requests,       \* the requests running concurrently on the same instances
    retriever,      \* fields of the VectorRetriever instance
    reranker        \* fields of the RerankingService instance

mmrVars == <<candidates, finalK, lambda, mmrOut>>
rrfVars == <<denseResults, sparseResults, denseWeight, sparseWeight, rrfOut>>
pipeVars == <<useReranking, rerankTopN, pc, attempt, rerankCalls, rerankFailures,
              lastError, lastResponse, mmrResults, response, delays, mmrCalls>>
stepVars == <<steps, step, allResults>>
batchVars == <<queryChunkPairs, batchTopN, pairIndex, batchResults, batchErrors>>
advVars == <<inputChunks, multiStage, intermediateN, topNOption, firstStage,
             rerankChunksCalls>>
concVars == <<requests, retriever, reranker>>
vars == <<op, mmrVars, rrfVars, pipeVars, stepVars, batchVars, embedded, rerankRequest,
          filterSource, advVars, concVars>>

----------------------------------------------------------------------------
(* Bounds of the model *)

MaxCandidates == 3
MaxFinalK == 3
MaxRankLen == 3
MaxChunkId == 4
MaxRerankTopN == 2

----------------------------------------------------------------------------
(* JavaScript values *)

\* 0/0 in cosineSimilarity; every comparison with it is false
NaN == 100000
\* initial bestScore of the MMR scan
NegInfinity == 0 - 100000
\* a field that was never set (undefined)
Undefined == 200000
\* the value of an expression whose evaluation threw
Thrown == 300000
\* embedding: null
Null == <<>>

\* a > b on JavaScript numbers
JsGt(a, b) == a # NaN /\ b # NaN /\ a > b

\* a < b and a <= b on JavaScript numbers
JsLt(a, b) == a # NaN /\ b # NaN /\ a < b
JsLe(a, b) == a # NaN /\ b # NaN /\ a <= b

\* a falsy value where a number or the length of a string is expected:
\* undefined, NaN, 0 or ''
Falsy(v) == v = 0 \/ v = Undefined \/ v = NaN

\* Math.ceil(a / b) for a >= 0 and b > 0
CeilDiv(a, b) == (a + b - 1) \div b

\* Math.max(a, b)
JsMax(a, b) == IF a = NaN \/ b = NaN THEN NaN ELSE IF a >= b THEN a ELSE b

\* truthiness of an embedding value
Truthy(e) == e # Null

Sqrt(n) == CHOOSE r \in 0..n : r * r = n

Min(a, b) == IF a <= b THEN a ELSE b

SetMax(S) == CHOOSE m \in S : \A x \in S : x <= m

Remove(s, i) == SubSeq(s, 1, i - 1) \o SubSeq(s, i + 1, Len(s))

----------------------------------------------------------------------------
(* EmbeddingService.cosineSimilarity, in hundredths.  Embeddings are        *)
(* two-dimensional integer vectors whose norms are whole numbers, so that   *)
(* the quotient is exact.                                                   *)

Dot(a, b) == a[1] * b[1] + a[2] * b[2]

cosineSimilarity(embedding1, embedding2) ==
    IF embedding1 = Null \/ embedding2 = Null
    THEN Thrown    \* TypeError: cannot read properties of null (reading 'length')
    ELSE LET dotProduct == Dot(embedding1, embedding2)
             norm1 == Dot(embedding1, embedding1)
             norm2 == Dot(embedding2, embedding2)
             denom == Sqrt(norm1) * Sqrt(norm2)
         IN IF denom = 0 THEN NaN    \* 0 / 0
            ELSE (100 * dotProduct) \div denom

----------------------------------------------------------------------------
(* VectorRetriever.applyMMR *)

\* remaining.reduce((best, current) => current.similarity > best.similarity ? current : best)
RECURSIVE ReduceMostRelevant(_, _, _)
ReduceMostRelevant(remaining, i, best) ==
    IF i > Len(remaining) THEN best
    ELSE ReduceMostRelevant(remaining, i + 1,
            IF JsGt(remaining[i].similarity, remaining[best].similarity) THEN i ELSE best)

MostRelevantLast(remaining) ==
    CHOOSE i \in 1..Len(remaining) :
        /\ \A j \in 1..Len(remaining) : remaining[j].similarity <= remaining[i].similarity
        /\ \A j \in (i + 1)..Len(remaining) : remaining[j].similarity < remaining[i].similarity

MostRelevant(remaining) == ReduceMostRelevant(remaining, 2, 1)

PairGuardOr(candidate, selectedDoc) ==
    Truthy(candidate.embedding) \/ Truthy(selectedDoc.embedding)

\* if (candidate.embedding && selectedDoc.embedding)
PairGuard(candidate, selectedDoc) ==
    Truthy(candidate.embedding) /\ Truthy(selectedDoc.embedding)

\* the inner loop over selected: maxSimilarityToSelected
RECURSIVE MaxSimilarityToSelected(_, _, _, _)
MaxSimilarityToSelected(candidate, selected, j, acc) ==
    IF j > Len(selected) THEN acc
    ELSE IF PairGuard(candidate, selected[j])
         THEN LET similarity == cosineSimilarity(candidate.embedding, selected[j].embedding)
              IN IF similarity = Thrown THEN Thrown
                 ELSE MaxSimilarityToSelected(candidate, selected, j + 1, JsMax(acc, similarity))
         ELSE MaxSimilarityToSelected(candidate, selected, j + 1, acc)

\* lambda * relevanceScore - (1 - lambda) * maxSimilarityToSelected, in thousandths
MmrScore(candidate, selected, lam) ==
    LET maxSim == MaxSimilarityToSelected(candidate, selected, 1, 0)
    IN IF maxSim = Thrown THEN Thrown
       ELSE IF maxSim = NaN THEN NaN
       ELSE lam * candidate.similarity - (10 - lam) * maxSim

BetterOrEqual(mmrScore, bestScore) ==
    mmrScore # NaN /\ (bestScore = NegInfinity \/ mmrScore >= bestScore)

\* if (mmrScore > bestScore)
Better(mmrScore, bestScore) == JsGt(mmrScore, bestScore)

\* for (const candidate of remaining): index 0 stands for bestCandidate = null
RECURSIVE ScanRemaining(_, _, _, _, _, _)
ScanRemaining(selected, remaining, lam, i, bestIdx, bestScore) ==
    IF i > Len(remaining) THEN [idx |-> bestIdx, score |-> bestScore]
    ELSE LET mmrScore == MmrScore(remaining[i], selected, lam)
         IN IF mmrScore = Thrown THEN [idx |-> 0, score |-> Thrown]
            ELSE IF Better(mmrScore, bestScore)
                 THEN ScanRemaining(selected, remaining, lam, i + 1, i, mmrScore)
                 ELSE ScanRemaining(selected, remaining, lam, i + 1, bestIdx, bestScore)

\* while (selected.length < finalK && remaining.length > 0)
RECURSIVE MMRLoop(_, _, _, _)
MMRLoop(selected, remaining, fK, lam) ==
    IF ~(JsLt(Len(selected), fK) /\ Len(remaining) > 0)
    THEN [threw |-> FALSE, chunks |-> selected]
    ELSE LET best == ScanRemaining(selected, remaining, lam, 1, 0, NegInfinity)
         IN IF best.score = Thrown THEN [threw |-> TRUE, chunks |-> <<>>]
            ELSE IF best.idx # 0
                 THEN MMRLoop(Append(selected, [remaining[best.idx] EXCEPT !.mmrScore = best.score]),
                              Remove(remaining, best.idx), fK, lam)
                 ELSE [threw |-> FALSE, chunks |-> selected]    \* break

MMRSelect(cands, fK, lam) ==
    LET mostRelevant == MostRelevant(cands)
    IN MMRLoop(<<cands[mostRelevant]>>, Remove(cands, mostRelevant), fK, lam)

applyMMRNoShortCircuit(queryEmbedding, cands, fK, lam) ==
    IF Len(cands) = 0 THEN [threw |-> FALSE, chunks |-> cands]
    ELSE MMRSelect(cands, fK, lam)

applyMMR(queryEmbedding, cands, fK, lam) ==
    IF JsLe(Len(cands), fK)
    THEN [threw |-> FALSE, chunks |-> cands]
    ELSE MMRSelect(cands, fK, lam)

----------------------------------------------------------------------------
(* Inputs of applyMMR *)

Similarities == {70, 90}
Embeddings == {<<3, 4>>, <<4, 3>>, <<0 - 3, 0 - 4>>, <<0, 0>>, Null}
Lambdas == {0, 3, 7, 10}

\* a row of search_similar_documents as retrieveTopKCandidates returns it;
\* content is the length of the text
Chunk(i, sim, emb, len) ==
    [id |-> i, content |-> len, similarity |-> sim, embedding |-> emb, mmrScore |-> Undefined]

ShortContent == 120

CandidateLists ==
    UNION { { [i \in 1..n |-> Chunk(i, f[i][1], f[i][2], ShortContent)] :
                f \in [1..n -> Similarities \X Embeddings] } : n \in 0..MaxCandidates }

NotCalledMMR == [called |-> FALSE, threw |-> FALSE, chunks |-> <<>>]
NotCalledRRF == [called |-> FALSE, records |-> <<>>]

NoResponse == [kind |-> "none"]

\* the variables of an operation that is not the one being run
IdleRRF ==
    /\ denseResults = <<>>
    /\ sparseResults = <<>>
    /\ denseWeight = 0
    /\ sparseWeight = 0
    /\ rrfOut = NotCalledRRF

IdlePipeline ==
    /\ useReranking = FALSE
    /\ rerankTopN = 0
    /\ pc = "idle"
    /\ attempt = 0
    /\ rerankCalls = 0
    /\ rerankFailures = 0
    /\ lastError = "none"
    /\ lastResponse = <<>>
    /\ mmrResults = NoResponse
    /\ response = NoResponse
    /\ delays = <<>>
    /\ mmrCalls = 0
    /\ embedded = <<>>

IdleSteps ==
    /\ steps = 0
    /\ step = 0
    /\ allResults = <<>>

IdleBatch ==
    /\ queryChunkPairs = <<>>
    /\ batchTopN = 0
    /\ pairIndex = 0
    /\ batchResults = <<>>
    /\ batchErrors = <<>>

\* no Reranker call made yet
NoRequest == [documents |-> <<>>, topN |-> 0]

\* source = null
NoSource == "null"

IdleAdvanced ==
    /\ inputChunks = <<>>
    /\ multiStage = FALSE
    /\ intermediateN = 0
    /\ topNOption = 0
    /\ firstStage = NoResponse
    /\ rerankChunksCalls = 0

\* the fields set by the constructor of VectorRetriever, in the units of the model
RetrieverFields ==
    [defaultTopK |-> 50, defaultFinalK |-> 10, defaultLambda |-> 7, defaultThreshold |-> 3]

\* the fields set by the constructor of RerankingService
RerankerFields ==
    [model |-> "rerank-english-v3.0", defaultTopN |-> 5, maxChunkLength |-> 4096,
     retryAttempts |-> 3, retryDelay |-> 1000]

IdleConcurrent ==
    /\ requests = <<>>
    /\ retriever = RetrieverFields
    /\ reranker = RerankerFields

InitMMR ==
    /\ rerankRequest = NoRequest
    /\ filterSource = NoSource
    /\ IdleAdvanced
    /\ IdleConcurrent
    /\ op = "mmr"
    /\ candidates \in CandidateLists
    /\ finalK \in 0..MaxFinalK
    /\ lambda \in Lambdas
    /\ mmrOut = NotCalledMMR
    /\ IdleRRF
    /\ IdlePipeline
    /\ IdleSteps
    /\ IdleBatch

CallApplyMMR ==
    /\ op = "mmr"
    /\ ~mmrOut.called
    /\ mmrOut' = [called |-> TRUE] @@ applyMMR(Null, candidates, finalK, lambda)
    /\ UNCHANGED <<op, embedded, advVars, concVars, filterSource, rerankRequest, stepVars, batchVars, candidates, finalK, lambda, rrfVars, pipeVars>>

NextMMR == CallApplyMMR

SpecMMR == InitMMR /\ [][NextMMR]_vars

----------------------------------------------------------------------------
(* VectorRetriever.reciprocalRankFusion.  A fused score is an exact fraction *)
(* [num, den] with den > 0; the weights are in tenths.                       *)

\* default value of the parameter k
RRF_K == 60

\* rank = null
NullRank == 0

RatAdd(a, b) == [num |-> a.num * b.den + b.num * a.den, den |-> a.den * b.den]
RatEq(a, b) == a.num * b.den = b.num * a.den
RatLt(a, b) == a.num * b.den < b.num * a.den

\* weight / (k + index + 1), position = index + 1
RrfTerm(weight, k, position) == [num |-> weight, den |-> k + position]

\* index of the entry of the Map with this key, 0 when there is none
MapIndex(scoreMap, id) ==
    IF \E i \in 1..Len(scoreMap) : scoreMap[i].id = id
    THEN CHOOSE i \in 1..Len(scoreMap) : scoreMap[i].id = id
    ELSE 0

\* scoreMap.set(id, value): a new key goes last, an existing key keeps its place
MapSet(scoreMap, value) ==
    LET i == MapIndex(scoreMap, value.id)
    IN IF i = 0 THEN Append(scoreMap, value) ELSE [scoreMap EXCEPT ![i] = value]

\* denseResults.forEach((result, index) => scoreMap.set(result.id, {...}))
RECURSIVE ScoreDense(_, _, _, _, _)
ScoreDense(dense, dW, k, position, scoreMap) ==
    IF position > Len(dense) THEN scoreMap
    ELSE ScoreDense(dense, dW, k, position + 1,
            MapSet(scoreMap, [id |-> dense[position].id,
                              rrfScore |-> RrfTerm(dW, k, position),
                              denseRank |-> position,
                              sparseRank |-> NullRank]))

AccumulateOverwrite(existing, rrf, position) ==
    [existing EXCEPT !.rrfScore = rrf, !.sparseRank = position]

\* existing.rrfScore += rrf; existing.sparseRank = index + 1
Accumulate(existing, rrf, position) ==
    [existing EXCEPT !.rrfScore = RatAdd(existing.rrfScore, rrf), !.sparseRank = position]

\* sparseResults.forEach((result, index) => ...)
RECURSIVE AddSparse(_, _, _, _, _)
AddSparse(sparse, sW, k, position, scoreMap) ==
    IF position > Len(sparse) THEN scoreMap
    ELSE LET rrf == RrfTerm(sW, k, position)
             i == MapIndex(scoreMap, sparse[position].id)
         IN AddSparse(sparse, sW, k, position + 1,
                IF i # 0
                THEN [scoreMap EXCEPT ![i] = Accumulate(scoreMap[i], rrf, position)]
                ELSE MapSet(scoreMap, [id |-> sparse[position].id,
                                       rrfScore |-> rrf,
                                       denseRank |-> NullRank,
                                       sparseRank |-> position]))

ComesBeforeUnstable(b, a) == ~RatLt(b.rrfScore, a.rrfScore)

\* the comparator (a, b) => b.rrfScore - a.rrfScore is positive: b goes before a
ComesBefore(b, a) == RatLt(a.rrfScore, b.rrfScore)

\* Array.prototype.sort is stable: an element moves only in front of the
\* elements the comparator puts it before
RECURSIVE InsertSorted(_, _)
InsertSorted(sorted, value) ==
    IF sorted = <<>> THEN <<value>>
    ELSE IF ComesBefore(value, sorted[Len(sorted)])
         THEN Append(InsertSorted(SubSeq(sorted, 1, Len(sorted) - 1), value), sorted[Len(sorted)])
         ELSE Append(sorted, value)

RECURSIVE SortByRrfScore(_, _, _)
SortByRrfScore(values, i, sorted) ==
    IF i > Len(values) THEN sorted
    ELSE SortByRrfScore(values, i + 1, InsertSorted(sorted, values[i]))

reciprocalRankFusion(dense, sparse, dW, sW, k) ==
    LET scoreMap == AddSparse(sparse, sW, k, 1, ScoreDense(dense, dW, k, 1, <<>>))
    IN SortByRrfScore(scoreMap, 1, <<>>)

----------------------------------------------------------------------------
(* Inputs of reciprocalRankFusion: ranked lists of chunks with distinct ids *)

Weights == {0, 3, 7, 10}

RankedLists ==
    UNION { { [i \in 1..n |-> [id |-> f[i]]] :
                f \in { g \in [1..n -> 1..MaxChunkId] :
                          \A a, b \in 1..n : a # b => g[a] # g[b] } } : n \in 0..MaxRankLen }

InitRRF ==
    /\ rerankRequest = NoRequest
    /\ filterSource = NoSource
    /\ IdleAdvanced
    /\ IdleConcurrent
    /\ op = "rrf"
    /\ denseResults \in RankedLists
    /\ sparseResults \in RankedLists
    /\ denseWeight \in Weights
    /\ sparseWeight \in Weights
    /\ rrfOut = NotCalledRRF
    /\ candidates = <<>>
    /\ finalK = 0
    /\ lambda = 0
    /\ mmrOut = NotCalledMMR
    /\ IdlePipeline
    /\ IdleSteps
    /\ IdleBatch

CallReciprocalRankFusion ==
    /\ op = "rrf"
    /\ ~rrfOut.called
    /\ rrfOut' = [called |-> TRUE,
                  records |-> reciprocalRankFusion(denseResults, sparseResults,
                                                   denseWeight, sparseWeight, RRF_K)]
    /\ UNCHANGED <<op, embedded, advVars, concVars, filterSource, rerankRequest, stepVars, batchVars, denseResults, sparseResults, denseWeight, sparseWeight, mmrVars, pipeVars>>

NextRRF == CallReciprocalRankFusion

SpecRRF == InitRRF /\ [][NextRRF]_vars

----------------------------------------------------------------------------
(* VectorRetriever utility methods *)

RECURSIVE SumSeq(_)
SumSeq(q) == IF q = <<>> THEN 0 ELSE q[1] + SumSeq(Tail(q))

\* value of a property that may be absent
Field(r, name) == IF name \in DOMAIN r THEN r[name] ELSE Undefined

\* formatResults: tokenCount (a word count of the text) is left out, the text
\* being represented by its length
formatResults(results, includeMetadata) ==
    [i \in 1..Len(results) |->
        LET formatted == [id |-> results[i].id,
                          content |-> results[i].content,
                          similarity |-> results[i].similarity,
                          rank |-> i]
        IN IF includeMetadata
           THEN formatted @@
                [metadata |-> [mmrScore |-> Field(results[i], "mmrScore"),
                               contentLength |-> results[i].content,
                               retrievalMethod |->
                                   IF "retrievalMethod" \in DOMAIN results[i]
                                   THEN results[i].retrievalMethod ELSE "vector_mmr"]]
           ELSE formatted]

\* calculateAverageSimilarity, as the fraction sum / length
calculateAverageSimilarity(results) ==
    IF Len(results) = 0 THEN [num |-> 0, den |-> 1]
    ELSE [num |-> SumSeq([i \in 1..Len(results) |-> results[i].similarity]),
          den |-> Len(results)]

RECURSIVE SumPairs(_, _)
SumPairs(results, pairs) ==
    IF pairs = {} THEN 0
    ELSE LET pr == CHOOSE x \in pairs : TRUE
             similarity == cosineSimilarity(results[pr[1]].embedding, results[pr[2]].embedding)
             rest == SumPairs(results, pairs \ {pr})
         IN IF similarity = NaN \/ rest = NaN THEN NaN ELSE similarity + rest

\* calculateDiversityScore: 1 - average pairwise similarity, as a fraction of hundredths
calculateDiversityScore(results) ==
    IF Len(results) <= 1 THEN [num |-> 100, den |-> 1]
    ELSE LET pairs == { pr \in (1..Len(results)) \X (1..Len(results)) :
                          /\ pr[1] < pr[2]
                          /\ Truthy(results[pr[1]].embedding)
                          /\ Truthy(results[pr[2]].embedding) }
             comparisons == Cardinality(pairs)
             totalSimilarity == SumPairs(results, pairs)
         IN IF comparisons = 0 THEN [num |-> 100, den |-> 1]
            ELSE IF totalSimilarity = NaN THEN [num |-> NaN, den |-> 1]
            ELSE [num |-> 100 * comparisons - totalSimilarity, den |-> comparisons]

\* steps 4 and 5 of retrieveWithMMR: format the output of applyMMR and return
\* (the parameters topK and threshold only go to the external search)
MMRRetrievalValue(cands, fK, lam, includeMetadata, mmr) ==
    IF mmr.threw
    THEN [kind |-> "error",
          message |-> <<"Vector retrieval failed", "Embeddings must have the same dimensions">>]
    ELSE [kind |-> "result",
          results |-> formatResults(mmr.chunks, includeMetadata),
          metadata |-> [candidatesFound |-> Len(cands),
                        finalResults |-> Len(mmr.chunks),
                        mmrApplied |-> TRUE,
                        parameters |-> [finalK |-> fK, lambda |-> lam],
                        avgSimilarity |-> calculateAverageSimilarity(mmr.chunks),
                        diversityScore |-> calculateDiversityScore(mmr.chunks)]]

retrieveWithMMRValueNoEmptyCase(cands, fK, lam, includeMetadata) ==
    MMRRetrievalValue(cands, fK, lam, includeMetadata, applyMMR(Null, cands, fK, lam))

\* what retrieveWithMMR returns once retrieveTopKCandidates returned cands
retrieveWithMMRValue(cands, fK, lam, includeMetadata) ==
    IF Len(cands) = 0
    THEN [kind |-> "result",
          results |-> <<>>,
          metadata |-> [candidatesFound |-> 0, finalResults |-> 0, mmrApplied |-> FALSE,
                        parameters |-> [finalK |-> fK, lambda |-> lam]]]
    ELSE MMRRetrievalValue(cands, fK, lam, includeMetadata, applyMMR(Null, cands, fK, lam))

----------------------------------------------------------------------------
(* RerankingService *)

\* this.retryAttempts
retryAttempts == 3
\* this.retryDelay, milliseconds
retryDelay == 1000
\* RERANK_CONFIG.maxChunksLength
maxChunkLength == 4096
\* RERANK_CONFIG.topN
defaultTopN == 5
\* length of the marker '...'
EllipsisLength == 3

\* Queries: a string is itself, a query that was not given is MissingQuery
ValidQuery == "what is mmr"
EmptyQuery == ""
BlankQuery == "   "
MissingQuery == "undefined"

\* query.trim()
Trim(query) == IF query = BlankQuery THEN EmptyQuery ELSE query

\* !chunk.content && !chunk.text; a text is represented by its length
MissingContentAndText(chunk) == Falsy(chunk.content) /\ Falsy(Field(chunk, "text"))

MissingContent(chunk) == Falsy(chunk.content)

validateInputsWithoutTopN(query, chunks, topN) ==
    IF query = MissingQuery \/ Trim(query) = EmptyQuery
    THEN "Query is required and must be a non-empty string"
    ELSE IF Len(chunks) = 0 THEN "Chunks must be a non-empty array"
    ELSE IF \E i \in 1..Len(chunks) : MissingContentAndText(chunks[i])
         THEN "chunks missing content/text field"
    ELSE "ok"

\* validateInputs: the message thrown, or "ok"
validateInputs(query, chunks, topN) ==
    IF query = MissingQuery \/ Trim(query) = EmptyQuery
    THEN "Query is required and must be a non-empty string"
    ELSE IF Len(chunks) = 0 THEN "Chunks must be a non-empty array"
    ELSE IF topN < 1 \/ topN > 100 THEN "topN must be between 1 and 100"
    ELSE IF \E i \in 1..Len(chunks) : MissingContentAndText(chunks[i])
         THEN "chunks missing content/text field"
    ELSE "ok"

\* chunk.content || chunk.text || ''
ContentOrText(chunk) ==
    IF ~Falsy(chunk.content) THEN chunk.content
    ELSE IF ~Falsy(Field(chunk, "text")) THEN chunk.text
    ELSE 0

\* prepareDocuments
prepareDocuments(chunks, truncateChunks) ==
    [i \in 1..Len(chunks) |->
        [text |-> IF truncateChunks /\ ContentOrText(chunks[i]) > maxChunkLength
                  THEN maxChunkLength + EllipsisLength
                  ELSE ContentOrText(chunks[i])]]

\* rerankChunks before its first await: console.log reads query.substring and
\* chunks.length, then validateInputs; the message thrown, or "ok"
RerankEntry(query, chunks, topN) ==
    IF query = MissingQuery
    THEN "Cannot read properties of undefined (reading 'substring')"
    ELSE validateInputs(query, chunks, topN)

\* topN: options.topN || this.defaultTopN, as sent to cohere.v2.rerank
SentTopN(topN) == IF topN = 0 THEN defaultTopN ELSE topN

RerankScores == {40, 80}

\* the rankings the Reranker may give to n of the documents: 0-based indexes
\* without repetition, scores non-increasing
Rankings(documentCount, n) ==
    { g \in [1..n -> (0..(documentCount - 1)) \X RerankScores] :
        /\ \A a, b \in 1..n : a # b => g[a][1] # g[b][1]
        /\ \A a \in 1..(n - 1) : g[a][2] >= g[a + 1][2] }

\* result.document of a response: the text that was sent (returnDocuments is
\* true), or no text when the provider leaves the documents out
ReturnedDocument(documents, index, echo) ==
    IF echo THEN documents[index + 1] ELSE [text |-> 0]

\* the responses the Reranker may give: the topN best documents
RerankResponses(documents, topN) ==
    { [i \in 1..Min(topN, Len(documents)) |->
          [index |-> f[i][1],
           relevanceScore |-> f[i][2],
           document |-> ReturnedDocument(documents, f[i][1], echo)]] :
        f \in Rankings(Len(documents), Min(topN, Len(documents))), echo \in BOOLEAN }

\* rerankedChunk.metadata
RerankedMetadata(result, originalChunk) ==
    [rerankScore |-> result.relevanceScore,
     originalSimilarity |-> originalChunk.similarity,
     scoreImprovement |-> result.relevanceScore
                            - (IF originalChunk.similarity = Undefined THEN 0
                               ELSE originalChunk.similarity),
     retrievalMethod |-> "reranked"]
        @@ (IF "metadata" \in DOMAIN originalChunk THEN originalChunk.metadata ELSE <<>>)

\* rerankedChunk before the original ranking information is added
RerankedChunk(result, originalChunk, newRank) ==
    [content |-> IF ~Falsy(result.document.text) THEN result.document.text
                 ELSE originalChunk.content,
     rerankScore |-> result.relevanceScore,
     rerankRank |-> newRank,
     metadata |-> RerankedMetadata(result, originalChunk)]
        @@ originalChunk

OriginalRankZeroBased(result) == result.index

\* originalIndex + 1
OriginalRank(result) == result.index + 1

\* processRerankResults
processRerankResults(rerankResponse, originalChunks, includeOriginalRank) ==
    [newRank \in 1..Len(rerankResponse) |->
        IF includeOriginalRank
        THEN [originalRank |-> OriginalRank(rerankResponse[newRank]),
              rankImprovement |-> OriginalRank(rerankResponse[newRank]) - newRank]
                @@ RerankedChunk(rerankResponse[newRank],
                                 originalChunks[rerankResponse[newRank].index + 1], newRank)
        ELSE RerankedChunk(rerankResponse[newRank],
                           originalChunks[rerankResponse[newRank].index + 1], newRank)]

Abs(x) == IF x < 0 THEN 0 - x ELSE x

\* calculateRerankingStats; an average is the fraction sum / count
RerankingStats(rerankScores, originalSimilarities, rankChanges, significantChanges) ==
    [avgRerankScore |-> [num |-> SumSeq(rerankScores), den |-> Len(rerankScores)],
     maxRerankScore |-> SetMax({ rerankScores[i] : i \in 1..Len(rerankScores) }),
     minRerankScore |-> 0 - SetMax({ 0 - rerankScores[i] : i \in 1..Len(rerankScores) }),
     avgOriginalSimilarity |->
         [num |-> SumSeq(originalSimilarities), den |-> Len(originalSimilarities)],
     avgRankChange |-> [num |-> SumSeq([i \in 1..Len(rankChanges) |-> Abs(rankChanges[i])]),
                        den |-> Len(rankChanges)],
     significantRankChanges |-> significantChanges,
     reorderingRate |-> [num |-> significantChanges, den |-> Len(rerankScores)],
     processingTime |-> 0]

\* chunk.rankImprovement || 0
RankChange(chunk) ==
    IF "rankImprovement" \in DOMAIN chunk THEN chunk.rankImprovement ELSE 0

calculateRerankingStats(originalChunks, rerankedChunks) ==
    RerankingStats(
        [i \in 1..Len(rerankedChunks) |-> rerankedChunks[i].rerankScore],
        [i \in 1..Len(originalChunks) |->
            IF originalChunks[i].similarity = Undefined THEN 0
            ELSE originalChunks[i].similarity],
        [i \in 1..Len(rerankedChunks) |-> RankChange(rerankedChunks[i])],
        Cardinality({ i \in 1..Len(rerankedChunks) : Abs(RankChange(rerankedChunks[i])) >= 2 }))

\* what rerankChunks returns once callCohereRerank returned rerankResponse
RerankValue(chunks, topN, rerankedResults) ==
    [originalCount |-> Len(chunks),
     rerankedCount |-> Len(rerankedResults),
     results |-> rerankedResults,
     metadata |-> [topN |-> topN, stats |-> calculateRerankingStats(chunks, rerankedResults)]]

rerankChunksValue(chunks, topN, rerankResponse) ==
    RerankValue(chunks, topN, processRerankResults(rerankResponse, chunks, TRUE))

\* the message thrown by callCohereRerank after the last attempt failed with error
CohereErrorMessage(error) ==
    IF error = "rate limit" THEN "Cohere API rate limit exceeded. Please try again later."
    ELSE IF error = "invalid" THEN "Invalid request to Cohere API. Check query and documents."
    ELSE "Cohere API error"

RerankerErrors == {"rate limit", "invalid", "other"}

----------------------------------------------------------------------------
(* One request to a retrieval strategy of VectorRetriever.  The request is   *)
(* suspended at each await of an external call (embedding provider, vector   *)
(* store, keyword search, Reranker, retry delay); an action is the code that *)
(* runs when that call settles, up to the next await or the end of the       *)
(* request.  op names the strategy: "pipeline" is retrieveWithMMRAndRerank,  *)
(* "retrieve" is retrieveWithMMR, "contextual" is contextualRetrieve,        *)
(* "hybrid" is hybridRetrieve and "multistep" is multiStepRetrieve.          *)

Strategies == {"pipeline", "retrieve", "contextual", "hybrid", "multistep"}

\* this.defaultFinalK
defaultFinalK == 10

\* this.defaultLambda, in tenths
defaultLambda == 7

\* destructuring default: it applies to undefined only
DefaultOr(v, d) == IF v = Undefined THEN d ELSE v

\* Math.ceil(retrievalOptions.finalK * 1.5)
ScaledFinalK(fK) == IF fK = Undefined \/ fK = NaN THEN NaN ELSE CeilDiv(3 * fK, 2)

\* the finalK with which each strategy calls retrieveWithMMR
MMRFinalK(o, fK, st) ==
    CASE o = "hybrid" -> ScaledFinalK(fK)
      [] o = "multistep" -> CeilDiv(DefaultOr(fK, defaultFinalK), st)
      [] OTHER -> DefaultOr(fK, defaultFinalK)

\* the includeMetadata with which each strategy calls retrieveWithMMR
IncludeMetadata(o) == o # "pipeline"

\* the catch block of each strategy prefixes the message
ErrorWrap(o) ==
    CASE o = "pipeline" -> <<"Complete retrieval failed">>
      [] o = "contextual" -> <<"Contextual retrieval failed">>
      [] o = "hybrid" -> <<"Hybrid retrieval failed">>
      [] o = "multistep" -> <<"Multi-step retrieval failed">>
      [] OTHER -> <<>>

ContentLengths == {ShortContent, maxChunkLength + 1}

\* what search_similar_documents can return: rows ordered by similarity,
\* without an embedding column, so that embedding is null
SearchResults ==
    UNION { { [i \in 1..n |-> Chunk(i, f[i][1], Null, f[i][2])] :
                f \in { g \in [1..n -> Similarities \X ContentLengths] :
                          \A a \in 1..(n - 1) : g[a][1] >= g[a + 1][1] } } :
            n \in 0..MaxCandidates }

EmptyResultInstead(messages) == [kind |-> "result", results |-> <<>>, message |-> messages]

\* a request that rejects with an Error whose message is the messages joined by ': '
Failure(messages) == [kind |-> "error", message |-> messages]

\* failures of the external calls of the required path
EmbeddingFailed == "embedding failed"
SearchFailed == "search failed"

\* the query a strategy passes to its first retrieveWithMMR: contextualRetrieve
\* puts the context in front of it
FirstQuery(o) ==
    [query |-> ValidQuery,
     context |-> IF o = "contextual" THEN "context" ELSE "",
     topResult |-> <<>>]

\* a request that has called generateEmbedding and nothing else yet
AwaitingEmbedding ==
    /\ embedded = <<FirstQuery(op)>>
    /\ candidates = <<>>
    /\ mmrOut = NotCalledMMR
    /\ pc = "awaitEmbedding"
    /\ attempt = 0
    /\ rerankCalls = 0
    /\ rerankFailures = 0
    /\ lastError = "none"
    /\ lastResponse = <<>>
    /\ mmrResults = NoResponse
    /\ response = NoResponse
    /\ delays = <<>>
    /\ mmrCalls = 0

InitPipeline ==
    /\ rerankRequest = NoRequest
    /\ filterSource = NoSource
    /\ IdleAdvanced
    /\ IdleConcurrent
    /\ op = "pipeline"
    /\ finalK \in 1..MaxFinalK
    /\ lambda \in Lambdas
    /\ IdleRRF
    /\ useReranking \in BOOLEAN
    /\ rerankTopN \in 0..MaxRerankTopN
    /\ AwaitingEmbedding
    /\ IdleSteps
    /\ IdleBatch

\* embeddingService.generateEmbedding(query) resolves
EmbeddingReturns ==
    /\ op \in Strategies /\ pc = "awaitEmbedding"
    /\ pc' = "awaitSearch"
    /\ UNCHANGED <<op, embedded, advVars, concVars, filterSource, rerankRequest, stepVars, batchVars, mmrVars, rrfVars, useReranking, rerankTopN,
                   attempt, rerankCalls, rerankFailures, lastError, lastResponse,
                   mmrResults, response, delays, mmrCalls>>

\* generateEmbedding rejects: every catch block on the way rethrows
EmbeddingThrows ==
    /\ op \in Strategies /\ pc = "awaitEmbedding"
    /\ pc' = "threw"
    /\ response' = Failure(ErrorWrap(op) \o <<"Vector retrieval failed",
                                              "Failed to generate embedding">>)
    /\ lastError' = EmbeddingFailed
    /\ UNCHANGED <<op, embedded, advVars, concVars, filterSource, rerankRequest, stepVars, batchVars, mmrVars, rrfVars, useReranking, rerankTopN,
                   attempt, rerankCalls, rerankFailures, lastResponse, mmrResults, delays,
                   mmrCalls>>

\* supabase.rpc('search_similar_documents') reports an error
SearchThrows ==
    /\ op \in Strategies /\ pc = "awaitSearch"
    /\ pc' = "threw"
    /\ response' = Failure(ErrorWrap(op) \o <<"Vector retrieval failed",
                                              "Database query failed">>)
    /\ lastError' = SearchFailed
    /\ UNCHANGED <<op, embedded, advVars, concVars, filterSource, rerankRequest, stepVars, batchVars, mmrVars, rrfVars, useReranking, rerankTopN,
                   attempt, rerankCalls, rerankFailures, lastResponse, mmrResults, delays,
                   mmrCalls>>

\* applyMMR is called unless there are no candidates
MMRCallsAfter(cands, calls) == IF Len(cands) = 0 THEN calls ELSE calls + 1

\* the request callCohereRerank sends for the chunks and topN of rerankChunks
CohereRequest(chunks, topN) ==
    [documents |-> prepareDocuments(chunks, TRUE),
     topN |-> SentTopN(Min(topN, Len(chunks)))]

\* rerankChunks(query, chunks, {topN}) up to its call of cohere.v2.rerank
StartRerank(chunks, topN) ==
    IF validateInputs(ValidQuery, chunks, topN) # "ok"
    THEN /\ pc' = "threw"
         /\ response' = Failure(<<"Complete retrieval failed", "Reranking failed",
                                  validateInputs(ValidQuery, chunks, topN)>>)
         /\ UNCHANGED <<attempt, rerankRequest>>
    ELSE /\ pc' = "awaitRerank"
         /\ attempt' = 1
         /\ rerankRequest' = CohereRequest(chunks, topN)
         /\ UNCHANGED response

RerankInputCandidates(mmr) == candidates'

\* the chunks retrieveWithMMRAndRerank passes to rerankChunks
RerankInput(mmr) == mmr.results

AfterMMRRetrievalAlwaysRerank(mmr) ==
    IF mmr.kind = "error"
    THEN /\ pc' = "threw"
         /\ response' = Failure(<<"Complete retrieval failed">> \o mmr.message)
         /\ UNCHANGED <<mmrResults, attempt, rerankRequest>>
    ELSE /\ mmrResults' = mmr
         /\ IF Len(mmr.results) = 0
            THEN pc' = "returned" /\ response' = mmr /\ UNCHANGED <<attempt, rerankRequest>>
            ELSE StartRerank(RerankInput(mmr), Min(rerankTopN, Len(mmr.results)))

\* retrieveWithMMRAndRerank once retrieveWithMMR settled with mmr
AfterMMRRetrieval(mmr) ==
    IF mmr.kind = "error"
    THEN /\ pc' = "threw"
         /\ response' = Failure(<<"Complete retrieval failed">> \o mmr.message)
         /\ UNCHANGED <<mmrResults, attempt, rerankRequest>>
    ELSE /\ mmrResults' = mmr
         /\ IF ~useReranking \/ Len(mmr.results) = 0
            THEN pc' = "returned" /\ response' = mmr /\ UNCHANGED <<attempt, rerankRequest>>
            ELSE StartRerank(RerankInput(mmr), Min(rerankTopN, Len(mmr.results)))

\* the search returns: the rest of retrieveWithMMR, then retrieveWithMMRAndRerank
\* up to the first call of cohere.v2.rerank
SearchReturns ==
    /\ op = "pipeline" /\ pc = "awaitSearch"
    /\ \E cands \in SearchResults :
         /\ candidates' = cands
         /\ mmrCalls' = MMRCallsAfter(cands, mmrCalls)
         /\ AfterMMRRetrieval(retrieveWithMMRValue(cands, MMRFinalK(op, finalK, steps), lambda,
                                                   IncludeMetadata(op)))
    /\ UNCHANGED <<op, embedded, advVars, concVars, filterSource, stepVars, batchVars, finalK, lambda, mmrOut, rrfVars, useReranking,
                   rerankTopN, rerankCalls, rerankFailures, lastError, lastResponse, delays>>

\* if (attempt < this.retryAttempts)
ShouldRetry(n) == n < retryAttempts

BackoffDelayConstant(n) == retryDelay

\* this.retryDelay * attempt
BackoffDelay(n) == retryDelay * n

\* cohere.v2.rerank rejects: retry after a delay while attempt < retryAttempts,
\* otherwise throw; rerankChunks and retrieveWithMMRAndRerank rethrow
RerankThrows ==
    /\ op = "pipeline" /\ pc = "awaitRerank"
    /\ \E error \in RerankerErrors :
         /\ lastError' = error
         /\ IF ShouldRetry(attempt)
            THEN /\ pc' = "awaitDelay"
                 /\ delays' = Append(delays, BackoffDelay(attempt))
                 /\ UNCHANGED response
            ELSE /\ pc' = "threw"
                 /\ response' = Failure(<<"Complete retrieval failed", "Reranking failed",
                                          CohereErrorMessage(error)>>)
                 /\ UNCHANGED delays
    /\ rerankCalls' = rerankCalls + 1
    /\ rerankFailures' = rerankFailures + 1
    /\ UNCHANGED <<op, embedded, advVars, concVars, filterSource, rerankRequest, stepVars, batchVars, mmrVars, rrfVars, useReranking, rerankTopN,
                   attempt, lastResponse, mmrResults, mmrCalls>>

\* this.delay(this.retryDelay * attempt) elapses: callCohereRerank(..., attempt + 1)
DelayElapses ==
    /\ op \in {"pipeline", "batch", "advanced"} /\ pc = "awaitDelay"
    /\ attempt' = attempt + 1
    /\ pc' = "awaitRerank"
    /\ UNCHANGED <<op, embedded, advVars, concVars, filterSource, rerankRequest, stepVars, batchVars, mmrVars, rrfVars, useReranking, rerankTopN,
                   rerankCalls, rerankFailures, lastError, lastResponse, mmrResults,
                   response, delays, mmrCalls>>

\* step 3 of retrieveWithMMRAndRerank: the value returned after reranking
CompleteValue(mmr, rerankResults, fK, topN, lam) ==
    [kind |-> "result",
     results |-> formatResults(rerankResults.results, TRUE),
     metadata |-> [pipeline |-> "mmr_rerank",
                   mmrMetadata |-> mmr.metadata,
                   rerankMetadata |-> rerankResults.metadata,
                   totalCandidates |-> mmr.metadata.candidatesFound,
                   mmrResults |-> Len(mmr.results),
                   finalResults |-> Len(rerankResults.results),
                   avgRerankScore |-> rerankResults.metadata.stats.avgRerankScore,
                   reorderingRate |-> rerankResults.metadata.stats.reorderingRate,
                   parameters |-> [finalK |-> fK, rerankTopN |-> topN, lambda |-> lam]]]

\* the topN that retrieveWithMMRAndRerank passes to rerankChunks
PipelineTopN(chunks) == Min(rerankTopN, Len(chunks))

\* cohere.v2.rerank resolves: the rest of rerankChunks and of retrieveWithMMRAndRerank
RerankReturns ==
    /\ op = "pipeline" /\ pc = "awaitRerank"
    /\ \E reranked \in RerankResponses(rerankRequest.documents, rerankRequest.topN) :
         /\ lastResponse' = reranked
         /\ response' = CompleteValue(mmrResults,
                                      rerankChunksValue(RerankInput(mmrResults),
                                                        PipelineTopN(mmrResults.results),
                                                        reranked),
                                      finalK, rerankTopN, lambda)
    /\ pc' = "returned"
    /\ rerankCalls' = rerankCalls + 1
    /\ UNCHANGED <<op, embedded, advVars, concVars, filterSource, rerankRequest, stepVars, batchVars, mmrVars, rrfVars, useReranking, rerankTopN,
                   attempt, rerankFailures, lastError, mmrResults, delays, mmrCalls>>

NextPipeline ==
    \/ EmbeddingReturns
    \/ EmbeddingThrows
    \/ SearchThrows
    \/ SearchReturns
    \/ RerankThrows
    \/ DelayElapses
    \/ RerankReturns

SpecPipeline == InitPipeline /\ [][NextPipeline]_vars

----------------------------------------------------------------------------
(* retrieveWithMMR called directly, and contextualRetrieve, which calls it  *)
(* with the expanded query and rethrows with its own prefix                 *)

\* what the strategy makes of the value or error of retrieveWithMMR
Rewrap(o, mmr) ==
    IF mmr.kind = "error" THEN Failure(ErrorWrap(o) \o mmr.message) ELSE mmr

Settled(value) == IF value.kind = "error" THEN "threw" ELSE "returned"

InitRetrieve ==
    /\ rerankRequest = NoRequest
    /\ filterSource = NoSource
    /\ IdleAdvanced
    /\ IdleConcurrent
    /\ op \in {"retrieve", "contextual"}
    /\ finalK \in (1..MaxFinalK) \cup {Undefined}
    /\ lambda \in Lambdas
    /\ IdleRRF
    /\ useReranking = FALSE
    /\ rerankTopN = 0
    /\ AwaitingEmbedding
    /\ IdleSteps
    /\ IdleBatch

\* the search returns: the rest of retrieveWithMMR; contextualRetrieve returns its value
MMRSearchReturns ==
    /\ op \in {"retrieve", "contextual"} /\ pc = "awaitSearch"
    /\ \E cands \in SearchResults :
         /\ candidates' = cands
         /\ mmrCalls' = MMRCallsAfter(cands, mmrCalls)
         /\ mmrResults' = retrieveWithMMRValue(cands, MMRFinalK(op, finalK, steps), lambda,
                                               IncludeMetadata(op))
    /\ response' = Rewrap(op, mmrResults')
    /\ pc' = Settled(mmrResults')
    /\ UNCHANGED <<op, embedded, advVars, concVars, filterSource, rerankRequest, stepVars, batchVars, finalK, lambda, mmrOut, rrfVars, useReranking,
                   rerankTopN, attempt, rerankCalls, rerankFailures, lastError, lastResponse,
                   delays>>

----------------------------------------------------------------------------
(* hybridRetrieve *)

\* the (denseWeight, sparseWeight) options of the modelled requests, in tenths
HybridWeights == {<<10, 0>>, <<7, 3>>, <<0, 10>>}

\* rows of the documents table that the full-text search can return, at most
\* limit of them; a limit that is not a number leaves the count to the store
KeywordRows(limit) == { rows \in RankedLists : limit = NaN \/ Len(rows) <= limit }

\* keywordSearch: data.map((doc, index) => ({...doc, keywordScore, retrievalMethod}))
keywordSearchValue(data) ==
    [i \in 1..Len(data) |->
        [keywordScore |-> [num |-> 1, den |-> i], retrievalMethod |-> "keyword"] @@ data[i]]

\* the error reported by the full-text query
KeywordFailed == "keyword search failed"

SliceCountScaled(fK) == ScaledFinalK(fK)

\* fusedResults.slice(0, retrievalOptions.finalK || this.defaultFinalK)
SliceCount(fK) == IF Falsy(fK) THEN defaultFinalK ELSE fK

\* the value hybridRetrieve returns
HybridValue(dense, sparse, fused, fK, dW, sW) ==
    [kind |-> "result",
     results |-> SubSeq(fused, 1, Min(SliceCount(fK), Len(fused))),
     metadata |-> [denseResultsCount |-> Len(dense),
                   sparseResultsCount |-> Len(sparse),
                   fusionApplied |-> TRUE,
                   weights |-> [dense |-> dW, sparse |-> sW]]]

\* the source column of the documents table: the last chunk id belongs to
\* another document than the others
DocumentSource(id) == IF id < MaxChunkId THEN "docA" ELSE "docB"

\* WHERE (filter_source IS NULL OR d.source = filter_source)
MatchesFilter(rows, filter) ==
    filter = NoSource \/ \A i \in 1..Len(rows) : DocumentSource(rows[i].id) = filter

InitHybrid ==
    /\ rerankRequest = NoRequest
    /\ filterSource \in {NoSource, "docA"}
    /\ IdleAdvanced
    /\ IdleConcurrent
    /\ op = "hybrid"
    /\ finalK \in (1..MaxFinalK) \cup {Undefined}
    /\ lambda \in Lambdas
    /\ denseResults = <<>>
    /\ sparseResults = <<>>
    /\ \E w \in HybridWeights : denseWeight = w[1] /\ sparseWeight = w[2]
    /\ filterSource # NoSource => (denseWeight = 7 /\ lambda = defaultLambda)
    /\ rrfOut = NotCalledRRF
    /\ useReranking = FALSE
    /\ rerankTopN = 0
    /\ AwaitingEmbedding
    /\ IdleSteps
    /\ IdleBatch

\* the search returns: the rest of retrieveWithMMR, then hybridRetrieve up to
\* the query of keywordSearch
HybridSearchReturns ==
    /\ op = "hybrid" /\ pc = "awaitSearch"
    /\ \E cands \in SearchResults :
         /\ MatchesFilter(cands, filterSource)
         /\ candidates' = cands
         /\ mmrCalls' = MMRCallsAfter(cands, mmrCalls)
         /\ mmrResults' = retrieveWithMMRValue(cands, MMRFinalK(op, finalK, steps), lambda,
                                               IncludeMetadata(op))
    /\ IF mmrResults'.kind = "error"
       THEN /\ pc' = "threw"
            /\ response' = Rewrap(op, mmrResults')
            /\ UNCHANGED denseResults
       ELSE /\ pc' = "awaitKeyword"
            /\ denseResults' = mmrResults'.results
            /\ UNCHANGED response
    /\ UNCHANGED <<op, embedded, advVars, concVars, filterSource, rerankRequest, stepVars, batchVars, finalK, lambda, mmrOut, sparseResults, denseWeight,
                   sparseWeight, rrfOut, useReranking, rerankTopN, attempt, rerankCalls,
                   rerankFailures, lastError, lastResponse, delays>>

\* keywordSearch settled with sparse: fusion and the return of hybridRetrieve
Fuse(sparse) ==
    /\ sparseResults' = sparse
    /\ rrfOut' = [called |-> TRUE,
                  records |-> reciprocalRankFusion(denseResults, sparse, denseWeight,
                                                   sparseWeight, RRF_K)]
    /\ response' = HybridValue(denseResults, sparse, rrfOut'.records, finalK, denseWeight,
                               sparseWeight)
    /\ pc' = "returned"

\* the full-text query resolves with rows
KeywordReturns ==
    /\ op = "hybrid" /\ pc = "awaitKeyword"
    /\ \E data \in KeywordRows(ScaledFinalK(finalK)) : Fuse(keywordSearchValue(data))
    /\ UNCHANGED <<op, embedded, advVars, concVars, filterSource, rerankRequest, stepVars, batchVars, mmrVars, denseResults, denseWeight, sparseWeight,
                   useReranking, rerankTopN, attempt, rerankCalls, rerankFailures, lastError,
                   lastResponse, mmrResults, delays, mmrCalls>>

\* the full-text query reports an error: keywordSearch catches it and returns []
KeywordThrows ==
    /\ op = "hybrid" /\ pc = "awaitKeyword"
    /\ Fuse(<<>>)
    /\ lastError' = KeywordFailed
    /\ UNCHANGED <<op, embedded, advVars, concVars, filterSource, rerankRequest, stepVars, batchVars, mmrVars, denseResults, denseWeight, sparseWeight,
                   useReranking, rerankTopN, attempt, rerankCalls, rerankFailures,
                   lastResponse, mmrResults, delays, mmrCalls>>

NextHybrid ==
    \/ EmbeddingReturns
    \/ EmbeddingThrows
    \/ SearchThrows
    \/ HybridSearchReturns
    \/ KeywordThrows
    \/ KeywordReturns

SpecHybrid == InitHybrid /\ [][NextHybrid]_vars

----------------------------------------------------------------------------
(* multiStepRetrieve *)

MaxSteps == 3

\* removeDuplicates: the first chunk of each id is kept
RECURSIVE removeDuplicates(_)
removeDuplicates(results) ==
    IF results = <<>> THEN <<>>
    ELSE LET front == removeDuplicates(SubSeq(results, 1, Len(results) - 1))
         IN IF \E i \in 1..Len(front) : front[i].id = results[Len(results)].id
            THEN front
            ELSE Append(front, results[Len(results)])

\* result.similarity || 0
SimilarityOr0(result) == IF Falsy(result.similarity) THEN 0 ELSE result.similarity

\* the comparator (a, b) => (b.similarity || 0) - (a.similarity || 0) is
\* positive: b goes before a
RECURSIVE InsertBySimilarity(_, _)
InsertBySimilarity(sorted, value) ==
    IF sorted = <<>> THEN <<value>>
    ELSE IF SimilarityOr0(sorted[Len(sorted)]) < SimilarityOr0(value)
         THEN Append(InsertBySimilarity(SubSeq(sorted, 1, Len(sorted) - 1), value),
                     sorted[Len(sorted)])
         ELSE Append(sorted, value)

RECURSIVE SortBySimilarity(_)
SortBySimilarity(values) ==
    IF values = <<>> THEN <<>>
    ELSE InsertBySimilarity(SortBySimilarity(SubSeq(values, 1, Len(values) - 1)),
                            values[Len(values)])

MultiStepValueUnsorted(all, unique, st, fK) ==
    [kind |-> "result",
     results |-> SubSeq(unique, 1, Min(fK, Len(unique))),
     metadata |-> [steps |-> st,
                   totalCandidates |-> Len(all),
                   uniqueResults |-> Len(unique),
                   finalResults |-> Min(fK, Len(unique))]]

\* the value multiStepRetrieve returns
MultiStepValue(all, unique, st, fK) ==
    [kind |-> "result",
     results |-> SubSeq(SortBySimilarity(unique), 1, Min(fK, Len(unique))),
     metadata |-> [steps |-> st,
                   totalCandidates |-> Len(all),
                   uniqueResults |-> Len(unique),
                   finalResults |-> Min(fK, Len(unique))]]

\* the rows with other ids: the query of a later step may match other chunks
ShiftIds(cands, by) == [i \in 1..Len(cands) |-> [cands[i] EXCEPT !.id = @ + by]]

\* rows whose content is short
ShortRows == { cands \in SearchResults :
                 \A i \in 1..Len(cands) : cands[i].content = ShortContent }

\* what search_similar_documents can return to a step of multiStepRetrieve
StepSearchResults == ShortRows \cup { ShiftIds(cands, 1) : cands \in ShortRows }

SubstringWhole(content) == content

\* topResult.content.substring(0, 100)
Substring100(content) == Min(100, content)

\* `${query} ${topResult.content.substring(0, 100)}`
FollowUpQuery(query, topResult) ==
    [query EXCEPT !.topResult = <<[id |-> topResult.id,
                                   chars |-> Substring100(topResult.content)]>>]

\* currentQuery after a step that is not the last one
NextQuery(query, currentQuery, stepResults) ==
    IF Len(stepResults) > 0 THEN FollowUpQuery(query, stepResults[1]) ELSE currentQuery

InitMultiStep ==
    /\ rerankRequest = NoRequest
    /\ filterSource = NoSource
    /\ IdleAdvanced
    /\ IdleConcurrent
    /\ op = "multistep"
    /\ finalK \in 1..MaxFinalK
    /\ lambda \in Lambdas
    /\ IdleRRF
    /\ useReranking = FALSE
    /\ rerankTopN = 0
    /\ AwaitingEmbedding
    /\ steps \in 1..MaxSteps
    /\ step = 0
    /\ allResults = <<>>
    /\ IdleBatch

\* the search of a step returns: the rest of retrieveWithMMR, then the loop
\* body up to generateEmbedding of the next step, or the end of the request
StepSearchReturns ==
    /\ op = "multistep" /\ pc = "awaitSearch"
    /\ \E cands \in StepSearchResults :
         /\ candidates' = cands
         /\ mmrCalls' = MMRCallsAfter(cands, mmrCalls)
         /\ mmrResults' = retrieveWithMMRValue(cands, MMRFinalK(op, finalK, steps), lambda,
                                               IncludeMetadata(op))
    /\ IF mmrResults'.kind = "error"
       THEN /\ pc' = "threw"
            /\ response' = Rewrap(op, mmrResults')
            /\ UNCHANGED <<step, allResults, embedded>>
       ELSE /\ allResults' = allResults \o mmrResults'.results
            /\ step' = step + 1
            /\ IF step' < steps
               THEN /\ pc' = "awaitEmbedding"
                    /\ embedded' = Append(embedded,
                                          NextQuery(FirstQuery(op), embedded[Len(embedded)],
                                                    mmrResults'.results))
                    /\ UNCHANGED response
               ELSE /\ pc' = "returned"
                    /\ response' = MultiStepValue(allResults', removeDuplicates(allResults'),
                                                  steps, finalK)
                    /\ UNCHANGED embedded
    /\ UNCHANGED <<op, advVars, concVars, filterSource, rerankRequest, steps, batchVars, finalK, lambda, mmrOut, rrfVars, useReranking,
                   rerankTopN, attempt, rerankCalls, rerankFailures, lastError, lastResponse,
                   delays>>

----------------------------------------------------------------------------
(* Every retrieval strategy *)

\* the requests leave lambda to its default; so do the hybrid ones the weights
\* and the source filter
InitStrategies ==
    /\ \/ InitPipeline
       \/ InitRetrieve
       \/ InitHybrid /\ denseWeight = 7 /\ filterSource = NoSource
       \/ InitMultiStep
    /\ lambda = defaultLambda

NextStrategies ==
    \/ EmbeddingReturns
    \/ EmbeddingThrows
    \/ SearchThrows
    \/ SearchReturns
    \/ RerankThrows
    \/ DelayElapses
    \/ RerankReturns
    \/ MMRSearchReturns
    \/ HybridSearchReturns
    \/ KeywordThrows
    \/ KeywordReturns
    \/ StepSearchReturns

SpecStrategies == InitStrategies /\ [][NextStrategies]_vars

----------------------------------------------------------------------------
(* RerankingService.batchRerank: the pairs are reranked one after the other; *)
(* the request is suspended at each call of the Reranker, at each retry      *)
(* delay and at the pause between two successful pairs                       *)

MaxPairs == 2

\* chunk lists of the modelled pairs: two chunks of which one is longer than
\* maxChunkLength, a chunk with text but no content, a chunk with neither, none
TwoChunks == <<Chunk(1, 90, Null, ShortContent), Chunk(2, 70, Null, maxChunkLength + 1)>>
TextOnlyChunks == <<[text |-> ShortContent] @@ Chunk(3, 70, Null, Undefined)>>
NoContentChunks == <<Chunk(4, 70, Null, Undefined)>>

PairKinds ==
    { [query |-> ValidQuery, chunks |-> c] :
        c \in {TwoChunks, TextOnlyChunks, NoContentChunks, <<>>} }
    \cup { [query |-> q, chunks |-> TwoChunks] : q \in {EmptyQuery, BlankQuery, MissingQuery} }

PairLists == UNION { [1..n -> PairKinds] : n \in 0..MaxPairs }

\* options.topN of the modelled requests
TopNOptions == {Undefined, 0, 1, 101}

\* topN = this.defaultTopN in rerankChunks
RerankTopN(optionTopN) == DefaultOr(optionTopN, defaultTopN)

\* the message with which rerankChunks rejects
RerankFailed(message) == <<"Reranking failed", message>>

\* errors.push({index: i, query: query.substring(0, 50), error: error.message, metadata})
BatchError(i, pair, message) ==
    [index |-> i, query |-> pair.query, error |-> RerankFailed(message)]

\* the loop from pair i (0-based) up to the next call of the Reranker, the end
\* of the loop, or an error thrown by the catch block, which reads
\* query.substring
RECURSIVE BatchAdvance(_, _, _, _)
BatchAdvance(prs, optionTopN, i, errs) ==
    IF i >= Len(prs) THEN [pc |-> "returned", index |-> i, errors |-> errs]
    ELSE IF RerankEntry(prs[i + 1].query, prs[i + 1].chunks, RerankTopN(optionTopN)) = "ok"
    THEN [pc |-> "awaitRerank", index |-> i, errors |-> errs]
    ELSE IF prs[i + 1].query = MissingQuery
    THEN [pc |-> "threw", index |-> i, errors |-> errs]
    ELSE BatchAdvance(prs, optionTopN, i + 1,
            Append(errs, BatchError(i, prs[i + 1],
                     RerankEntry(prs[i + 1].query, prs[i + 1].chunks, RerankTopN(optionTopN)))))

\* the value batchRerank returns
BatchValue(results, errs) ==
    [kind |-> "result",
     successful |-> Len(results),
     failed |-> Len(errs),
     results |-> results,
     errors |-> errs]

\* results.push({index: i, metadata, ...result})
BatchResult(i, result) == [index |-> i] @@ result

\* the request goes on from where BatchAdvance stopped
ResumeBatch(next, results) ==
    /\ pc' = next.pc
    /\ pairIndex' = next.index
    /\ batchErrors' = next.errors
    /\ batchResults' = results
    /\ attempt' = IF next.pc = "awaitRerank" THEN 1 ELSE attempt
    /\ delays' = IF next.pc = "awaitRerank" THEN <<>> ELSE delays
    /\ rerankRequest' = IF next.pc = "awaitRerank"
                        THEN CohereRequest(queryChunkPairs[next.index + 1].chunks,
                                           RerankTopN(batchTopN))
                        ELSE rerankRequest
    /\ response' =
         CASE next.pc = "returned" -> BatchValue(results, next.errors)
           [] next.pc = "threw" ->
                Failure(<<"Cannot read properties of undefined (reading 'substring')">>)
           [] OTHER -> response

InitBatch ==
    /\ rerankRequest = NoRequest
    /\ filterSource = NoSource
    /\ IdleAdvanced
    /\ IdleConcurrent
    /\ op = "batch"
    /\ queryChunkPairs \in PairLists
    /\ batchTopN \in TopNOptions
    /\ pairIndex = 0
    /\ batchResults = <<>>
    /\ batchErrors = <<>>
    /\ candidates = <<>>
    /\ finalK = 0
    /\ lambda = 0
    /\ mmrOut = NotCalledMMR
    /\ IdleRRF
    /\ useReranking = FALSE
    /\ rerankTopN = 0
    /\ pc = "batchStart"
    /\ attempt = 0
    /\ rerankCalls = 0
    /\ rerankFailures = 0
    /\ lastError = "none"
    /\ lastResponse = <<>>
    /\ mmrResults = NoResponse
    /\ response = NoResponse
    /\ delays = <<>>
    /\ mmrCalls = 0
    /\ embedded = <<>>
    /\ IdleSteps

\* batchRerank is called
CallBatchRerank ==
    /\ op = "batch" /\ pc = "batchStart"
    /\ ResumeBatch(BatchAdvance(queryChunkPairs, batchTopN, 0, <<>>), <<>>)
    /\ UNCHANGED <<op, embedded, advVars, concVars, filterSource, stepVars, queryChunkPairs, batchTopN, mmrVars, rrfVars, useReranking,
                   rerankTopN, rerankCalls, rerankFailures, lastError, lastResponse,
                   mmrResults, mmrCalls>>

\* the chunks of the pair being reranked
CurrentChunks == queryChunkPairs[pairIndex + 1].chunks

\* cohere.v2.rerank resolves: the rest of rerankChunks, results.push, then the
\* pause before the next pair or the end of the loop
BatchRerankReturns ==
    /\ op = "batch" /\ pc = "awaitRerank"
    /\ \E reranked \in RerankResponses(rerankRequest.documents, rerankRequest.topN) :
         /\ lastResponse' = reranked
         /\ IF pairIndex < Len(queryChunkPairs) - 1
            THEN /\ pc' = "batchPause"
                 /\ batchResults' =
                      Append(batchResults,
                             BatchResult(pairIndex,
                                         rerankChunksValue(CurrentChunks,
                                                           RerankTopN(batchTopN), reranked)))
                 /\ UNCHANGED <<pairIndex, batchErrors, attempt, delays, response,
                                rerankRequest>>
            ELSE ResumeBatch(BatchAdvance(queryChunkPairs, batchTopN, pairIndex + 1,
                                          batchErrors),
                             Append(batchResults,
                                    BatchResult(pairIndex,
                                                rerankChunksValue(CurrentChunks,
                                                                  RerankTopN(batchTopN),
                                                                  reranked))))
    /\ rerankCalls' = rerankCalls + 1
    /\ UNCHANGED <<op, embedded, advVars, concVars, filterSource, stepVars, queryChunkPairs, batchTopN, mmrVars, rrfVars, useReranking,
                   rerankTopN, rerankFailures, lastError, mmrResults, mmrCalls>>

\* this.delay(100) elapses: the loop goes on with the next pair
BatchPauseElapses ==
    /\ op = "batch" /\ pc = "batchPause"
    /\ ResumeBatch(BatchAdvance(queryChunkPairs, batchTopN, pairIndex + 1, batchErrors),
                   batchResults)
    /\ UNCHANGED <<op, embedded, advVars, concVars, filterSource, stepVars, queryChunkPairs, batchTopN, mmrVars, rrfVars, useReranking,
                   rerankTopN, rerankCalls, rerankFailures, lastError, lastResponse,
                   mmrResults, mmrCalls>>

\* cohere.v2.rerank rejects: retry after a delay while attempt < retryAttempts,
\* otherwise rerankChunks rejects, errors.push, and the loop goes on
BatchRerankThrows ==
    /\ op = "batch" /\ pc = "awaitRerank"
    /\ \E error \in RerankerErrors :
         /\ lastError' = error
         /\ IF ShouldRetry(attempt)
            THEN /\ pc' = "awaitDelay"
                 /\ delays' = Append(delays, BackoffDelay(attempt))
                 /\ UNCHANGED <<pairIndex, batchErrors, batchResults, attempt, response,
                                rerankRequest>>
            ELSE ResumeBatch(BatchAdvance(queryChunkPairs, batchTopN, pairIndex + 1,
                                          Append(batchErrors,
                                                 BatchError(pairIndex,
                                                            queryChunkPairs[pairIndex + 1],
                                                            CohereErrorMessage(error)))),
                             batchResults)
    /\ rerankCalls' = rerankCalls + 1
    /\ rerankFailures' = rerankFailures + 1
    /\ UNCHANGED <<op, embedded, advVars, concVars, filterSource, stepVars, queryChunkPairs, batchTopN, mmrVars, rrfVars, useReranking,
                   rerankTopN, lastResponse, mmrResults, mmrCalls>>

NextBatch ==
    \/ CallBatchRerank
    \/ BatchRerankReturns
    \/ BatchPauseElapses
    \/ BatchRerankThrows
    \/ DelayElapses

SpecBatch == InitBatch /\ [][NextBatch]_vars

----------------------------------------------------------------------------
(* RerankingService.advancedRerank with expandQuery left false.  The request *)
(* is suspended at each call of the Reranker and at each retry delay.        *)

\* the chunk lists of the modelled requests: one of each length
AdvancedChunkLists ==
    { cands \in ShortRows : \A i \in 1..Len(cands) : cands[i].similarity = 90 }

\* intermediateN = Math.min(15, chunks.length)
IntermediateN == DefaultOr(intermediateN, Min(15, Len(inputChunks)))

\* topN = this.defaultTopN
AdvancedTopN == DefaultOr(topNOption, defaultTopN)

MultiStageAlways == multiStage

\* if (multiStage && chunks.length > intermediateN)
MultiStagePath == multiStage /\ Len(inputChunks) > IntermediateN

AdvancedFailure(message) ==
    Failure(<<"Advanced reranking failed", "Reranking failed", message>>)

\* rerankChunks(processedQuery, chunks, {topN}) up to its call of cohere.v2.rerank
AdvancedStart(chunks, topN) ==
    IF validateInputs(ValidQuery, chunks, topN) # "ok"
    THEN /\ pc' = "threw"
         /\ response' = AdvancedFailure(validateInputs(ValidQuery, chunks, topN))
         /\ UNCHANGED <<attempt, rerankRequest, delays>>
    ELSE /\ pc' = "awaitRerank"
         /\ attempt' = 1
         /\ delays' = <<>>
         /\ rerankRequest' = CohereRequest(chunks, topN)
         /\ UNCHANGED response

\* the value of the multi-stage branch
MultiStageValue(chunks, first, second, n) ==
    [kind |-> "result",
     originalCount |-> second.originalCount,
     rerankedCount |-> second.rerankedCount,
     results |-> second.results,
     metadata |-> [multiStage |-> TRUE,
                   intermediateN |-> n,
                   stages |-> <<[stage |-> 1, input |-> Len(chunks),
                                 output |-> Len(first.results)],
                                [stage |-> 2, input |-> Len(first.results),
                                 output |-> Len(second.results)]>>]
                    @@ second.metadata]

InitAdvanced ==
    /\ op = "advanced"
    /\ inputChunks \in AdvancedChunkLists
    /\ multiStage \in BOOLEAN
    /\ intermediateN \in (0..MaxRerankTopN) \cup {Undefined}
    /\ topNOption \in (1..MaxRerankTopN) \cup {Undefined}
    /\ firstStage = NoResponse
    /\ rerankChunksCalls = 0
    /\ rerankRequest = NoRequest
    /\ filterSource = NoSource
    /\ IdleConcurrent
    /\ candidates = <<>>
    /\ finalK = 0
    /\ lambda = 0
    /\ mmrOut = NotCalledMMR
    /\ IdleRRF
    /\ useReranking = FALSE
    /\ rerankTopN = 0
    /\ pc = "advancedStart"
    /\ attempt = 0
    /\ rerankCalls = 0
    /\ rerankFailures = 0
    /\ lastError = "none"
    /\ lastResponse = <<>>
    /\ mmrResults = NoResponse
    /\ response = NoResponse
    /\ delays = <<>>
    /\ mmrCalls = 0
    /\ embedded = <<>>
    /\ IdleSteps
    /\ IdleBatch

\* advancedRerank is called: up to the Reranker call of its first rerankChunks
CallAdvancedRerank ==
    /\ op = "advanced" /\ pc = "advancedStart"
    /\ rerankChunksCalls' = 1
    /\ IF MultiStagePath
       THEN AdvancedStart(inputChunks, IntermediateN)
       ELSE AdvancedStart(inputChunks, AdvancedTopN)
    /\ UNCHANGED <<op, embedded, concVars, filterSource, inputChunks, multiStage,
                   intermediateN, topNOption, firstStage, stepVars, batchVars, mmrVars,
                   rrfVars, useReranking, rerankTopN, rerankCalls, rerankFailures, lastError,
                   lastResponse, mmrResults, mmrCalls>>

\* the first stage returned value: the second rerankChunks up to its Reranker call
SecondStage(value) ==
    /\ firstStage' = [kind |-> "result"] @@ value
    /\ rerankChunksCalls' = 2
    /\ AdvancedStart(value.results, AdvancedTopN)

\* the last rerankChunks returned value: advancedRerank returns
AdvancedReturn(value) ==
    /\ response' = IF MultiStagePath
                   THEN MultiStageValue(inputChunks, firstStage, value, IntermediateN)
                   ELSE [kind |-> "result"] @@ value
    /\ pc' = "returned"
    /\ UNCHANGED <<firstStage, rerankChunksCalls, attempt, rerankRequest, delays>>

\* cohere.v2.rerank resolves: the rest of rerankChunks, then the second stage
\* or the return of advancedRerank
AdvancedRerankReturns ==
    /\ op = "advanced" /\ pc = "awaitRerank"
    /\ \E reranked \in RerankResponses(rerankRequest.documents, rerankRequest.topN) :
         /\ lastResponse' = reranked
         /\ IF MultiStagePath /\ rerankChunksCalls = 1
            THEN SecondStage(rerankChunksValue(inputChunks, IntermediateN, reranked))
            ELSE IF MultiStagePath
            THEN AdvancedReturn(rerankChunksValue(firstStage.results, AdvancedTopN, reranked))
            ELSE AdvancedReturn(rerankChunksValue(inputChunks, AdvancedTopN, reranked))
    /\ rerankCalls' = rerankCalls + 1
    /\ UNCHANGED <<op, embedded, concVars, filterSource, inputChunks, multiStage,
                   intermediateN, topNOption, stepVars, batchVars, mmrVars, rrfVars,
                   useReranking, rerankTopN, rerankFailures, lastError, mmrResults, mmrCalls>>

\* cohere.v2.rerank rejects: retry after a delay while attempt < retryAttempts,
\* otherwise rerankChunks and advancedRerank rethrow
AdvancedRerankThrows ==
    /\ op = "advanced" /\ pc = "awaitRerank"
    /\ \E error \in RerankerErrors :
         /\ lastError' = error
         /\ IF ShouldRetry(attempt)
            THEN /\ pc' = "awaitDelay"
                 /\ delays' = Append(delays, BackoffDelay(attempt))
                 /\ UNCHANGED response
            ELSE /\ pc' = "threw"
                 /\ response' = AdvancedFailure(CohereErrorMessage(error))
                 /\ UNCHANGED delays
    /\ rerankCalls' = rerankCalls + 1
    /\ rerankFailures' = rerankFailures + 1
    /\ UNCHANGED <<op, embedded, advVars, concVars, filterSource, rerankRequest, stepVars,
                   batchVars, mmrVars, rrfVars, useReranking, rerankTopN, attempt,
                   lastResponse, mmrResults, mmrCalls>>

NextAdvanced ==
    \/ CallAdvancedRerank
    \/ AdvancedRerankReturns
    \/ AdvancedRerankThrows
    \/ DelayElapses

SpecAdvanced == InitAdvanced /\ [][NextAdvanced]_vars

----------------------------------------------------------------------------
(* Two requests on the same VectorRetriever and RerankingService instances,  *)
(* as when a route handler is entered again while another request is         *)
(* suspended, or under Promise.all.  A request is a rerankChunks call on two *)
(* chunks with topN 1, or a retrieveWithMMR call with finalK 1.  Each is     *)
(* suspended at its awaits; what a request holds between two awaits is in    *)
(* parameters and local constants of its own calls (attempt is a parameter   *)
(* of callCohereRerank), and the fields of the instances are only read.      *)

Requests == {1, 2}

RequestKinds == {"rerank", "retrieve"}

\* a request up to its first await
NewRequest(kind) ==
    [kind |-> kind,
     pc |-> IF kind = "rerank" THEN "awaitRerank" ELSE "awaitEmbedding",
     attempt |-> IF kind = "rerank" THEN 1 ELSE 0,
     calls |-> 0,
     externals |-> <<>>,
     result |-> NoResponse]

\* the variables of the specifications of a single request
soloVars == <<op, mmrVars, rrfVars, pipeVars, stepVars, batchVars, embedded, rerankRequest,
              filterSource, advVars>>

InitConcurrent ==
    /\ op = "concurrent"
    /\ requests \in [Requests -> { NewRequest(kind) : kind \in RequestKinds }]
    /\ retriever = RetrieverFields
    /\ reranker = RerankerFields
    /\ candidates = <<>>
    /\ finalK = 0
    /\ lambda = 0
    /\ mmrOut = NotCalledMMR
    /\ IdleRRF
    /\ IdlePipeline
    /\ IdleSteps
    /\ IdleBatch
    /\ IdleAdvanced
    /\ rerankRequest = NoRequest
    /\ filterSource = NoSource

\* what the settling of an await leaves of request r
Settle(r, external, pc2, result) ==
    [requests EXCEPT ![r].externals = Append(@, external),
                     ![r].pc = pc2,
                     ![r].result = result]

AttemptAfterDelayShared(r) ==
    SetMax({ requests[x].attempt : x \in Requests }) + 1

\* callCohereRerank(query, documents, options, attempt + 1)
AttemptAfterDelay(r) == requests[r].attempt + 1

\* generateEmbedding resolves for request r
EmbeddingReturnsFor(r) ==
    /\ requests[r].kind = "retrieve" /\ requests[r].pc = "awaitEmbedding"
    /\ requests' = Settle(r, [kind |-> "embedding"], "awaitSearch", NoResponse)

\* generateEmbedding rejects for request r
EmbeddingThrowsFor(r) ==
    /\ requests[r].kind = "retrieve" /\ requests[r].pc = "awaitEmbedding"
    /\ requests' = Settle(r, [kind |-> "embedding error"], "threw",
                          Failure(<<"Vector retrieval failed",
                                    "Failed to generate embedding">>))

\* the search of request r returns rows: the rest of retrieveWithMMR
SearchReturnsFor(r) ==
    /\ requests[r].kind = "retrieve" /\ requests[r].pc = "awaitSearch"
    /\ \E cands \in ShortRows :
         requests' = Settle(r, [kind |-> "rows", rows |-> cands], "returned",
                            retrieveWithMMRValue(cands, 1, retriever.defaultLambda, TRUE))

\* the search of request r reports an error
SearchThrowsFor(r) ==
    /\ requests[r].kind = "retrieve" /\ requests[r].pc = "awaitSearch"
    /\ requests' = Settle(r, [kind |-> "search error"], "threw",
                          Failure(<<"Vector retrieval failed", "Database query failed">>))

\* cohere.v2.rerank resolves for request r: the rest of rerankChunks
RerankReturnsFor(r) ==
    /\ requests[r].kind = "rerank" /\ requests[r].pc = "awaitRerank"
    /\ \E reranked \in RerankResponses(prepareDocuments(TwoChunks, TRUE), 1) :
         requests' = [Settle(r, [kind |-> "response", response |-> reranked], "returned",
                             [kind |-> "result"] @@ rerankChunksValue(TwoChunks, 1, reranked))
                        EXCEPT ![r].calls = @ + 1]

\* cohere.v2.rerank rejects for request r: the retry delay, or the rejection
\* of rerankChunks
RerankThrowsFor(r) ==
    /\ requests[r].kind = "rerank" /\ requests[r].pc = "awaitRerank"
    /\ \E error \in RerankerErrors :
         requests' =
            [(IF requests[r].attempt < reranker.retryAttempts
              THEN Settle(r, [kind |-> "error", error |-> error], "awaitDelay", NoResponse)
              ELSE Settle(r, [kind |-> "error", error |-> error], "threw",
                          Failure(RerankFailed(CohereErrorMessage(error)))))
                EXCEPT ![r].calls = @ + 1]

\* the retry delay of request r elapses
DelayElapsesFor(r) ==
    /\ requests[r].pc = "awaitDelay"
    /\ requests' = [requests EXCEPT ![r].pc = "awaitRerank",
                                    ![r].attempt = AttemptAfterDelay(r)]

ConcurrentEmbeddingReturns ==
    /\ op = "concurrent"
    /\ \E r \in Requests : EmbeddingReturnsFor(r)
    /\ UNCHANGED <<soloVars, retriever, reranker>>

ConcurrentEmbeddingThrows ==
    /\ op = "concurrent"
    /\ \E r \in Requests : EmbeddingThrowsFor(r)
    /\ UNCHANGED <<soloVars, retriever, reranker>>

ConcurrentSearchReturns ==
    /\ op = "concurrent"
    /\ \E r \in Requests : SearchReturnsFor(r)
    /\ UNCHANGED <<soloVars, retriever, reranker>>

ConcurrentSearchThrows ==
    /\ op = "concurrent"
    /\ \E r \in Requests : SearchThrowsFor(r)
    /\ UNCHANGED <<soloVars, retriever, reranker>>

ConcurrentRerankReturns ==
    /\ op = "concurrent"
    /\ \E r \in Requests : RerankReturnsFor(r)
    /\ UNCHANGED <<soloVars, retriever, reranker>>

ConcurrentRerankThrows ==
    /\ op = "concurrent"
    /\ \E r \in Requests : RerankThrowsFor(r)
    /\ UNCHANGED <<soloVars, retriever, reranker>>

ConcurrentDelayElapses ==
    /\ op = "concurrent"
    /\ \E r \in Requests : DelayElapsesFor(r)
    /\ UNCHANGED <<soloVars, retriever, reranker>>

NextConcurrent ==
    \/ ConcurrentEmbeddingReturns
    \/ ConcurrentEmbeddingThrows
    \/ ConcurrentSearchReturns
    \/ ConcurrentSearchThrows
    \/ ConcurrentRerankReturns
    \/ ConcurrentRerankThrows
    \/ ConcurrentDelayElapses

SpecConcurrent == InitConcurrent /\ [][NextConcurrent]_vars

----------------------------------------------------------------------------
(* Properties of applyMMR, stated on the inputs and the returned list *)

MMRDone == op = "mmr" /\ mmrOut.called

Out == mmrOut.chunks

OutIds(from, to) == { Out[j].id : j \in from..to }

HasZeroEmbedding == \E i \in 1..Len(candidates) : candidates[i].embedding = <<0, 0>>

\* the candidates still remaining when the j-th chunk of the result was picked
RemainingAt(j) ==
    { i \in 1..Len(candidates) : i \notin OutIds(1, j - 1) }

\* C2: for a non-empty candidate list, finalK >= 1 and lambda in [0,1],
\* applyMMR returns exactly min(finalK, |candidates|) chunks.
C2_ResultSizeIsMin ==
    (MMRDone /\ Len(candidates) >= 1 /\ finalK >= 1)
        => (~mmrOut.threw /\ Len(Out) = Min(finalK, Len(candidates)))

\* C3: applyMMR with finalK = 0 returns an empty list for every candidate list.
C3_FinalKZeroReturnsEmpty ==
    (MMRDone /\ finalK = 0) => Out = <<>>

\* C4: whenever |candidates| > finalK, the first chunk returned has the maximum
\* similarity among all candidates and is the first such candidate in input order.
C4_FirstPickIsFirstMaximum ==
    (MMRDone /\ Len(candidates) > finalK)
        => /\ Len(Out) >= 1
           /\ \A i \in 1..Len(candidates) :
                /\ candidates[i].similarity <= Out[1].similarity
                /\ candidates[i].similarity = Out[1].similarity => Out[1].id <= i
           /\ Out[1] = candidates[Out[1].id]

C4_Witness ==
    /\ MMRDone /\ Len(candidates) > finalK /\ finalK >= 1
    /\ Len(candidates) = 3
    /\ candidates[1].similarity < candidates[2].similarity
    /\ candidates[2].similarity = candidates[3].similarity
    /\ Out[1].id = 2

\* C5: whenever |candidates| <= finalK, applyMMR returns exactly the input
\* candidates: same elements, same order, nothing added, dropped or modified.
C5_ShortCircuitReturnsInput ==
    (MMRDone /\ Len(candidates) <= finalK)
        => (~mmrOut.threw /\ Out = candidates)

C5_Witness ==
    /\ MMRDone /\ Len(candidates) = 2 /\ finalK = 3
    /\ candidates[1].similarity < candidates[2].similarity
    /\ Truthy(candidates[1].embedding) /\ Truthy(candidates[2].embedding)
    /\ Out = candidates

\* the objective as the claim states it: a pair with a missing embedding counts 0,
\* every other pair counts its cosine similarity
ClaimedPairSim(d, s) ==
    IF d.embedding = Null \/ s.embedding = Null THEN 0
    ELSE cosineSimilarity(d.embedding, s.embedding)

ClaimedMmr(i, j) ==
    lambda * candidates[i].similarity
        - (10 - lambda) * SetMax({ ClaimedPairSim(candidates[i], Out[s]) : s \in 1..(j - 1) })

\* C6: every pick after the first selects, among the remaining candidates, one
\* that maximizes lambda*similarity(d) - (1-lambda)*max_{s selected} cosineSim(d, s)
\* for every value of the cosine similarities in [-1, 1]; ties go to the earliest
\* remaining candidate and the chosen chunk's mmrScore is that maximum.
C6_PickMaximizesObjective ==
    (MMRDone /\ Len(candidates) > finalK /\ ~HasZeroEmbedding)
        => \A j \in 2..Len(Out) :
             LET best == SetMax({ ClaimedMmr(i, j) : i \in RemainingAt(j) })
             IN /\ Out[j].id \in RemainingAt(j)
                /\ ClaimedMmr(Out[j].id, j) = best
                /\ Out[j].mmrScore = best
                /\ \A i \in RemainingAt(j) : ClaimedMmr(i, j) = best => Out[j].id <= i

\* the cosine similarities of the pairs (d, selected) in which both have an embedding
EmbeddedPairSims(i, j) ==
    { cosineSimilarity(candidates[i].embedding, Out[s].embedding) :
        s \in { t \in 1..(j - 1) : Truthy(candidates[i].embedding) /\ Truthy(Out[t].embedding) } }

\* C7: a pair (remaining d, selected s) in which either chunk has no embedding
\* contributes 0 to d's redundancy penalty (the penalty of the picked chunk is
\* (1-lambda) times the largest of 0 and the cosine similarities of the pairs
\* that do have both embeddings), and the selection never raises an error.
C7_MissingEmbeddingCountsZero ==
    MMRDone
        => /\ ~mmrOut.threw
           /\ \A j \in 2..Len(Out) :
                (Out[j].mmrScore # Undefined /\ NaN \notin EmbeddedPairSims(Out[j].id, j))
                    => Out[j].mmrScore =
                         lambda * Out[j].similarity
                            - (10 - lambda) * SetMax({0} \cup EmbeddedPairSims(Out[j].id, j))

C7_Witness ==
    /\ MMRDone /\ Len(candidates) = 3 /\ finalK = 2 /\ lambda = 7
    /\ Len(Out) = 2
    /\ Out[1].embedding = <<3, 4>>
    /\ Out[2].embedding = Null
    /\ Out[2].mmrScore = 7 * Out[2].similarity
    /\ \E i \in 1..3 : i \notin OutIds(1, 2) /\ candidates[i].embedding = <<4, 3>>
                        /\ candidates[i].similarity = Out[2].similarity

AllSameEmbedding ==
    \A i, k \in 1..Len(candidates) : candidates[i].embedding = candidates[k].embedding

\* the remaining candidates (all but the first pick), in input order
RestInInputOrder == Remove(candidates, Out[1].id)

\* C8 as stated: when all candidates carry the same embedding and
\* |candidates| > finalK, the chunks selected after the first pick are the
\* remaining candidates taken in their original input order.
C8_Original_InputOrderAfterFirst ==
    (MMRDone /\ AllSameEmbedding /\ Len(candidates) > finalK /\ Len(Out) >= 1)
        => \A j \in 2..Len(Out) : Out[j].id = RestInInputOrder[j - 1].id

\* d goes before e in the order "lambda*similarity descending, ties by input order"
RelevanceBefore(d, e) ==
    \/ lambda * candidates[d].similarity > lambda * candidates[e].similarity
    \/ /\ lambda * candidates[d].similarity = lambda * candidates[e].similarity
       /\ d < e

\* C8 (amended): when all candidates carry the same embedding and
\* |candidates| > finalK, the chunks selected after the first pick are taken from
\* the remaining candidates in order of non-increasing lambda*similarity, ties in
\* input order; this is the original input order when the candidates arrive
\* sorted by similarity (or lambda = 0).
C8_SameEmbeddingRelevanceOrder ==
    (MMRDone /\ AllSameEmbedding /\ Len(candidates) > finalK)
        => /\ \A j \in 2..Len(Out) : \A i \in RemainingAt(j + 1) : RelevanceBefore(Out[j].id, i)
           /\ \A j \in 2..(Len(Out) - 1) : RelevanceBefore(Out[j].id, Out[j + 1].id)
           /\ ( (\A i \in 1..(Len(candidates) - 1) :
                    lambda * candidates[i].similarity >= lambda * candidates[i + 1].similarity)
                => \A j \in 2..Len(Out) : Out[j].id = RestInInputOrder[j - 1].id )

C8_Witness ==
    /\ MMRDone /\ AllSameEmbedding /\ Len(candidates) = 3 /\ finalK = 2 /\ lambda = 7
    /\ candidates[1].embedding = <<3, 4>>
    /\ candidates[1].similarity = 70
    /\ candidates[2].similarity = 90
    /\ candidates[3].similarity = 90
    /\ Len(Out) = 2 /\ Out[1].id = 2 /\ Out[2].id = 3

----------------------------------------------------------------------------
(* Properties of reciprocalRankFusion *)

RRFDone == op = "rrf" /\ rrfOut.called

Fused == rrfOut.records

\* 1-based rank of an id in a list, 0 when absent
RankIn(list, id) ==
    IF \E i \in 1..Len(list) : list[i].id = id
    THEN CHOOSE i \in 1..Len(list) : list[i].id = id
    ELSE 0

InputIds ==
    { denseResults[i].id : i \in 1..Len(denseResults) }
        \cup { sparseResults[i].id : i \in 1..Len(sparseResults) }

\* the fused score the claim gives to an id, times (k + r_d) * (k + r_s)
ExpectedScore(id) ==
    LET rd == RankIn(denseResults, id)
        rs == RankIn(sparseResults, id)
    IN [num |-> (IF rd # 0 THEN denseWeight * (RRF_K + rs) ELSE 0)
                  + (IF rs # 0 THEN sparseWeight * (RRF_K + rd) ELSE 0),
        den |-> (RRF_K + rd) * (RRF_K + rs)]

\* C9: given dense and sparse lists with distinct ids, the output has one record
\* per distinct id and its fused score is denseWeight/(k + r_d) (if ranked r_d in
\* the dense list) plus sparseWeight/(k + r_s) (if ranked r_s in the sparse list),
\* with k = 60; an id in both lists gets the sum, and its ranks are recorded.
C9_FusedScoreIsSumOfRankTerms ==
    RRFDone
        => /\ { Fused[i].id : i \in 1..Len(Fused) } = InputIds
           /\ Len(Fused) = Cardinality(InputIds)
           /\ \A i \in 1..Len(Fused) :
                /\ RatEq(Fused[i].rrfScore, ExpectedScore(Fused[i].id))
                /\ Fused[i].denseRank = RankIn(denseResults, Fused[i].id)
                /\ Fused[i].sparseRank = RankIn(sparseResults, Fused[i].id)

C9_Witness ==
    /\ RRFDone /\ denseWeight = 7 /\ sparseWeight = 3
    /\ Len(denseResults) = 3 /\ Len(sparseResults) = 3
    /\ \E i \in 1..Len(Fused) :
         /\ Fused[i].denseRank = 2 /\ Fused[i].sparseRank = 3
         /\ RatEq(Fused[i].rrfScore, [num |-> 7 * 63 + 3 * 62, den |-> 62 * 63])
    /\ \E i \in 1..Len(Fused) : Fused[i].denseRank = NullRank
    /\ \E i \in 1..Len(Fused) : Fused[i].sparseRank = NullRank

\* position at which an id was first encountered: dense list first, then the
\* sparse list
Encounter(id) ==
    IF RankIn(denseResults, id) # 0 THEN RankIn(denseResults, id)
    ELSE Len(denseResults) + RankIn(sparseResults, id)

\* C10: the returned list is sorted by fused score in non-increasing order, and
\* two records with equal fused score appear in the order in which their ids
\* were first encountered (dense list in order, then sparse-only ids).
C10_SortedDescendingStable ==
    RRFDone
        => \A i, j \in 1..Len(Fused) :
             i < j => \/ RatLt(Fused[j].rrfScore, Fused[i].rrfScore)
                      \/ /\ RatEq(Fused[j].rrfScore, Fused[i].rrfScore)
                         /\ Encounter(Fused[i].id) < Encounter(Fused[j].id)

C10_Witness ==
    /\ RRFDone /\ denseWeight = 3 /\ sparseWeight = 3
    /\ Len(Fused) = 4
    /\ RatEq(Fused[2].rrfScore, Fused[3].rrfScore)
    /\ Fused[2].sparseRank = NullRank /\ Fused[3].denseRank = NullRank
    /\ RatLt(Fused[2].rrfScore, Fused[1].rrfScore)
    /\ Fused[1].denseRank = 2

----------------------------------------------------------------------------
(* Properties of the complete pipeline *)

RequestEnded == op = "pipeline" /\ pc \in {"returned", "threw"}

\* C1: with useReranking = true and a non-empty MMR result, if every Reranker
\* call throws, the pipeline still returns normally with exactly the pre-rerank
\* MMR results and metadata.rerankingSkipped = true; it never ends in an error
\* because of the Reranker.
C1_RerankerFailureDegrades ==
    ( /\ RequestEnded
      /\ useReranking
      /\ mmrResults.kind = "result"
      /\ Len(mmrResults.results) > 0
      /\ rerankCalls > 0
      /\ rerankFailures = rerankCalls )
        => /\ pc = "returned"
           /\ response.kind = "result"
           /\ response.results = mmrResults.results
           /\ "rerankingSkipped" \in DOMAIN response.metadata
           /\ response.metadata.rerankingSkipped = TRUE

----------------------------------------------------------------------------
(* Properties of hybridRetrieve *)

HybridDone == op = "hybrid" /\ pc = "returned"

Ids(chunks) == [i \in 1..Len(chunks) |-> chunks[i].id]

\* C11: with denseWeight = 1 and sparseWeight = 0 hybrid retrieval returns the
\* chunk ids of the dense ranking truncated to finalK, in the same order,
\* whatever the keyword search returned
C11_DenseOnlyWeightsGiveDenseOrder ==
    (HybridDone /\ denseWeight = 10 /\ sparseWeight = 0 /\ finalK # Undefined)
        => Ids(response.results)
             = Ids(SubSeq(denseResults, 1, Min(finalK, Len(denseResults))))

\* C12: the dense stage is asked for ceil(1.5 * finalK) results and the fused
\* list is truncated to finalK, finalK being the caller's value or 10 when omitted
C12_DenseStageAskedForScaledFinalK ==
    (op = "hybrid" /\ pc \in {"awaitKeyword", "returned"})
        => /\ mmrResults.metadata.parameters.finalK
                = CeilDiv(3 * DefaultOr(finalK, defaultFinalK), 2)
           /\ pc = "returned"
                => response.results
                     = SubSeq(rrfOut.records, 1,
                              Min(DefaultOr(finalK, defaultFinalK), Len(rrfOut.records)))

----------------------------------------------------------------------------
(* Properties of batchRerank and rerankChunks *)

BatchEnded == op = "batch" /\ pc \in {"returned", "threw"}

Indexes(entries) == [j \in 1..Len(entries) |-> entries[j].index]

Ascending(q) == \A a, b \in 1..Len(q) : a < b => q[a] < q[b]

\* C13: batchRerank returns normally whatever pairs fail, with
\* successful + failed = number of pairs and each pair index in exactly one of
\* results and errors, in ascending order
C13_BatchIsolatesFailures ==
    BatchEnded
        => /\ pc = "returned"
           /\ response.successful + response.failed = Len(queryChunkPairs)
           /\ \A i \in 0..(Len(queryChunkPairs) - 1) :
                 (\E j \in 1..Len(response.results) : response.results[j].index = i)
                    # (\E j \in 1..Len(response.errors) : response.errors[j].index = i)
           /\ Ascending(Indexes(response.results))
           /\ Ascending(Indexes(response.errors))

----------------------------------------------------------------------------
(* Properties of callCohereRerank within one request of the complete pipeline *)

\* the delays waited before attempt n: baseDelay * 1, ..., baseDelay * (n - 1)
ClaimedDelays(n) == [m \in 1..(n - 1) |-> retryDelay * m]

\* the error category of the message the request ends with
ClaimedCategory(error) ==
    CASE error = "rate limit" -> "Cohere API rate limit exceeded. Please try again later."
      [] error = "invalid" -> "Invalid request to Cohere API. Check query and documents."
      [] OTHER -> "Cohere API error"

\* C14: the Reranker is invoked at most 3 times per rerank request; attempt
\* n + 1 follows a failed attempt n and a delay of baseDelay * n; nothing
\* follows a success; the 3rd failure ends the request with the error of the
\* last failure
C14_BoundedRetryWithBackoff ==
    [][ /\ rerankCalls' # rerankCalls
            => /\ pc = "awaitRerank"
               /\ rerankCalls' = rerankCalls + 1
               /\ rerankCalls' = attempt
               /\ attempt <= 3
               /\ rerankFailures = rerankCalls
               /\ delays = ClaimedDelays(attempt)
               /\ rerankFailures' = rerankFailures => pc' = "returned"
               /\ (rerankFailures' # rerankFailures /\ attempt < 3)
                    => pc' = "awaitDelay" /\ delays' = ClaimedDelays(attempt + 1)
               /\ (rerankFailures' # rerankFailures /\ attempt = 3)
                    => /\ pc' = "threw"
                       /\ response'.kind = "error"
                       /\ response'.message[Len(response'.message)]
                            = ClaimedCategory(lastError')
        /\ pc \in {"returned", "threw"} => FALSE
      ]_vars

C14_Witness ==
    /\ op = "pipeline" /\ pc = "threw"
    /\ rerankCalls = 3 /\ rerankFailures = 3
    /\ delays = <<1000, 2000>>
    /\ lastError = "rate limit"

----------------------------------------------------------------------------
(* Properties of the input validation of rerankChunks, on the pairs of a batch *)

BlankOrMissing(query) == query \in {EmptyQuery, BlankQuery, MissingQuery}

\* invalid input as claimed: a chunk without content is invalid
ClaimedInvalid(pair, topN) ==
    \/ BlankOrMissing(pair.query)
    \/ pair.chunks = <<>>
    \/ topN < 1 \/ topN > 100
    \/ \E i \in 1..Len(pair.chunks) : MissingContent(pair.chunks[i])

\* invalid input: a chunk is invalid when it has neither content nor text
Invalid(pair, topN) ==
    \/ BlankOrMissing(pair.query)
    \/ pair.chunks = <<>>
    \/ topN < 1 \/ topN > 100
    \/ \E i \in 1..Len(pair.chunks) : MissingContentAndText(pair.chunks[i])

Pair(i) == queryChunkPairs[i + 1]

\* pair i has ended in an error: it is listed in errors and not in results,
\* or the request itself threw while handling it
EndedInError(i) ==
    \/ /\ \E j \in 1..Len(batchErrors') : batchErrors'[j].index = i
       /\ \A j \in 1..Len(batchResults') : batchResults'[j].index # i
    \/ pc' = "threw" /\ pairIndex' = i

\* the pairs the loop has dealt with after the step
Handled ==
    { i \in 0..(Len(queryChunkPairs) - 1) : i < pairIndex' \/ (pc' = "threw" /\ i = pairIndex') }

\* C15 as stated: rerankChunks with invalid input (chunk without content
\* included) ends in an error, never invokes the Reranker, never waits for a retry
C15_Original_InvalidInputNeverReranked ==
    [][ op = "batch"
          => /\ \A i \in Handled :
                  ClaimedInvalid(Pair(i), RerankTopN(batchTopN)) => EndedInError(i)
             /\ pc' \in {"awaitRerank", "awaitDelay"}
                  => ~ClaimedInvalid(Pair(pairIndex'), RerankTopN(batchTopN))
             /\ (rerankCalls' # rerankCalls \/ Len(delays') > Len(delays))
                  => ~ClaimedInvalid(Pair(pairIndex), RerankTopN(batchTopN))
      ]_vars

\* C15 amended: rerankChunks with invalid input (query empty, blank or
\* missing, no chunks, topN outside [1,100], or a chunk with neither content
\* nor text) ends in an error, never invokes the Reranker, never waits for a retry
C15_InvalidInputNeverReranked ==
    [][ op = "batch"
          => /\ \A i \in Handled :
                  Invalid(Pair(i), RerankTopN(batchTopN)) => EndedInError(i)
             /\ pc' \in {"awaitRerank", "awaitDelay"}
                  => ~Invalid(Pair(pairIndex'), RerankTopN(batchTopN))
             /\ (rerankCalls' # rerankCalls \/ Len(delays') > Len(delays))
                  => ~Invalid(Pair(pairIndex), RerankTopN(batchTopN))
      ]_vars

C15_Witness ==
    /\ op = "batch" /\ pc = "returned"
    /\ batchTopN = 101
    /\ Len(queryChunkPairs) = 2
    /\ queryChunkPairs[1] = [query |-> ValidQuery, chunks |-> TwoChunks]
    /\ queryChunkPairs[2] = [query |-> BlankQuery, chunks |-> TwoChunks]
    /\ Indexes(batchErrors) = <<0, 1>>
    /\ rerankCalls = 0
    /\ delays = <<>>

----------------------------------------------------------------------------
(* Properties of the chunks through the stages of the complete pipeline *)

PipelineReturned == op = "pipeline" /\ pc = "returned"

\* C16: every chunk the pipeline outputs, after applyMMR and after
\* rerankChunks, has the id and the content of the candidate it comes from,
\* whatever the length of the content
C16_IdAndContentUnchanged ==
    PipelineReturned
        => \A i \in 1..Len(response.results) :
             \E j \in 1..Len(candidates) :
                /\ candidates[j].id = response.results[i].id
                /\ candidates[j].content = response.results[i].content

\* the entry of results for the pair reranked last, and the chunks of that pair
LastResult == batchResults[Len(batchResults)]
LastChunks == queryChunkPairs[LastResult.index + 1].chunks

\* C17: the i-th chunk rerankChunks returns is the input chunk at the index
\* the Reranker reported for position i, with rerankScore the reported score,
\* rerankRank = i, originalRank = index + 1 and
\* rankImprovement = originalRank - rerankRank
C17_RerankedChunksFollowResponse ==
    (op = "batch" /\ batchResults # <<>>)
        => /\ Len(LastResult.results) = Len(lastResponse)
           /\ \A i \in 1..Len(lastResponse) :
                 /\ LastResult.results[i].id = LastChunks[lastResponse[i].index + 1].id
                 /\ LastResult.results[i].similarity
                      = LastChunks[lastResponse[i].index + 1].similarity
                 /\ LastResult.results[i].rerankScore = lastResponse[i].relevanceScore
                 /\ LastResult.results[i].rerankRank = i
                 /\ LastResult.results[i].originalRank = lastResponse[i].index + 1
                 /\ LastResult.results[i].rankImprovement
                      = LastResult.results[i].originalRank - LastResult.results[i].rerankRank

C17_Witness ==
    /\ op = "batch" /\ batchResults # <<>>
    /\ Len(LastResult.results) = 2
    /\ lastResponse[1].index = 1
    /\ LastResult.results[1].rankImprovement = 1
    /\ LastResult.results[2].rankImprovement = 0 - 1

----------------------------------------------------------------------------
(* Properties of the retrieval strategies *)

\* C18: when useReranking is false, or MMR retrieval yields no result, the
\* complete pipeline returns exactly the value of MMR retrieval and never
\* invokes the Reranker
C18_RerankSkippedReturnsMMRResult ==
    ( /\ op = "pipeline"
      /\ mmrResults # NoResponse
      /\ ~useReranking \/ Len(mmrResults.results) = 0 )
        => /\ pc = "returned"
           /\ response = mmrResults
           /\ rerankCalls = 0

C18_Witness ==
    /\ op = "pipeline" /\ pc = "returned"
    /\ ~useReranking
    /\ rerankTopN > 0
    /\ Len(mmrResults.results) > 1
    /\ response = mmrResults

\* C19: when the similarity search returns no candidate, MMR retrieval
\* returns a normal result with results = [], candidatesFound = 0 and
\* mmrApplied = false, and applyMMR is not run
C19_NoCandidatesGivesEmptyResult ==
    (op \in {"retrieve", "contextual"} /\ mmrResults # NoResponse /\ candidates = <<>>)
        => /\ pc = "returned"
           /\ response = mmrResults
           /\ response.kind = "result"
           /\ response.results = <<>>
           /\ response.metadata.candidatesFound = 0
           /\ response.metadata.mmrApplied = FALSE
           /\ mmrCalls = 0

C19_Witness ==
    /\ op = "retrieve" /\ pc = "returned"
    /\ candidates = <<>>
    /\ response.results = <<>>
    /\ response.metadata.mmrApplied = FALSE

RequiredPathFailed == lastError \in {EmbeddingFailed, SearchFailed}

\* C20: when the query embedding or the primary similarity search fails,
\* every strategy ends in an error with no result at all, and nothing runs
\* after the failure: no applyMMR, no Reranker call
C20_RequiredFailureEndsRequest ==
    [][ /\ RequiredPathFailed'
            => /\ pc' = "threw"
               /\ response'.kind = "error"
               /\ "results" \notin DOMAIN response'
               /\ mmrCalls' = mmrCalls
               /\ rerankCalls' = rerankCalls
        /\ RequiredPathFailed => FALSE
      ]_vars

C20_Witness ==
    /\ op = "multistep" /\ pc = "threw"
    /\ step = 1
    /\ allResults # <<>>
    /\ lastError = SearchFailed
    /\ response.kind = "error"

----------------------------------------------------------------------------
(* Properties of hybridRetrieve when the keyword search fails *)

KeywordSearchFailed == op = "hybrid" /\ lastError = KeywordFailed

\* C21: when the keyword search fails internally hybrid retrieval still
\* returns, the keyword list it fuses is empty, and the result is the dense
\* results in dense order truncated to finalK (10 when omitted)
C21_KeywordFailureKeepsDenseResults ==
    KeywordSearchFailed
        => /\ pc = "returned"
           /\ response.kind = "result"
           /\ sparseResults = <<>>
           /\ response.metadata.sparseResultsCount = 0
           /\ Ids(response.results)
                = Ids(SubSeq(denseResults, 1,
                             Min(DefaultOr(finalK, defaultFinalK), Len(denseResults))))
           /\ \A i \in 1..Len(response.results) :
                 /\ response.results[i].denseRank = i
                 /\ response.results[i].sparseRank = NullRank

\* the keyword search failed after a dense retrieval of more than finalK chunks
C21_Witness ==
    /\ KeywordSearchFailed
    /\ pc = "returned"
    /\ finalK = 2
    /\ Len(denseResults) = 3
    /\ Len(response.results) = 2

----------------------------------------------------------------------------
(* Properties of the query embedding of the retrieval strategies *)

\* the calls of generateEmbedding made for the retrieveWithMMR call in progress
EmbeddingAttempts == Len(embedded) - step

\* C22: in every retrieval strategy a request fails on its query embedding
\* only after 3 attempts of the embedding call, so that one failure followed
\* by a success does not fail the request
C22_EmbeddingRetriedBeforeFailure ==
    (op \in Strategies /\ pc = "threw" /\ lastError = EmbeddingFailed)
        => EmbeddingAttempts = 3

----------------------------------------------------------------------------
(* Properties of the order of the two retrievals of hybridRetrieve *)

\* retrieveWithMMR has been called by hybridRetrieve and has not settled
DenseInFlight == op = "hybrid" /\ pc \in {"awaitEmbedding", "awaitSearch"}

\* keywordSearch has been called by hybridRetrieve
KeywordIssued == op = "hybrid" /\ pc \in {"awaitKeyword", "returned"}

\* C23: in hybrid retrieval the keyword search is issued without waiting for
\* the dense retrieval to complete: while the dense retrieval is in flight the
\* keyword search has been issued too
C23_KeywordIssuedWhileDenseInFlight == DenseInFlight => KeywordIssued

----------------------------------------------------------------------------
(* Properties of the result of multiStepRetrieve *)

MultiStepDone == op = "multistep" /\ pc = "returned"

\* the first chunk of allResults with this id
FirstOccurrence(id) ==
    allResults[CHOOSE i \in 1..Len(allResults) :
                 /\ allResults[i].id = id
                 /\ \A j \in 1..(i - 1) : allResults[j].id # id]

\* C24: the result of multi-step retrieval has no two chunks with the same
\* id, each chunk being the first occurrence of its id across the steps, is
\* ordered by similarity non-increasing, and has at most finalK chunks
C24_MultiStepUniqueSortedTruncated ==
    MultiStepDone
        => /\ \A i, j \in 1..Len(response.results) :
                 i # j => response.results[i].id # response.results[j].id
           /\ \A i \in 1..Len(response.results) :
                 response.results[i] = FirstOccurrence(response.results[i].id)
           /\ \A i \in 1..(Len(response.results) - 1) :
                 response.results[i].similarity >= response.results[i + 1].similarity
           /\ Len(response.results) <= finalK

\* two steps returned the same id with different similarities and a more
\* similar chunk after a less similar one, and more unique chunks than finalK
C24_Witness ==
    /\ MultiStepDone
    /\ \E i, j \in 1..Len(allResults) :
         /\ i < j
         /\ allResults[i].id = allResults[j].id
         /\ allResults[i].similarity # allResults[j].similarity
    /\ \E i, j \in 1..Len(allResults) :
         i < j /\ allResults[i].similarity < allResults[j].similarity
    /\ response.metadata.uniqueResults > finalK
    /\ Len(response.results) = finalK

----------------------------------------------------------------------------
(* Properties of advancedRerank *)

AdvancedDone == op = "advanced" /\ pc = "returned"

\* the chunks outnumber the intermediateN option, or its default min(15, chunks.length)
MoreChunksThanIntermediateN ==
    Len(inputChunks) > (IF intermediateN = Undefined THEN Min(15, Len(inputChunks))
                        ELSE intermediateN)

\* two rerankChunks calls one after the other: the first reduces the input
\* chunks to at most intermediateN, the second is sent the output of the first
\* and reduces it to at most topN; every final chunk is an output of the first
TwoStages ==
    /\ rerankChunksCalls = 2
    /\ firstStage.kind = "result"
    /\ firstStage.originalCount = Len(inputChunks)
    /\ Len(firstStage.results) <= intermediateN
    /\ \A i \in 1..Len(firstStage.results) :
         \E j \in 1..Len(inputChunks) : firstStage.results[i].id = inputChunks[j].id
    /\ rerankRequest.documents = prepareDocuments(firstStage.results, TRUE)
    /\ response.originalCount = Len(firstStage.results)
    /\ Len(response.results) <= (IF topNOption = Undefined THEN 5 ELSE topNOption)
    /\ \A i \in 1..Len(response.results) :
         \E j \in 1..Len(firstStage.results) :
            response.results[i].id = firstStage.results[j].id

\* C25 as stated: whenever multi-stage reranking is requested it performs
\* exactly two rerank calls in sequence, the second on the output of the first
C25_Original_MultiStageAlwaysTwoCalls == (AdvancedDone /\ multiStage) => TwoStages

\* C25: multi-stage reranking performs the two rerank calls in sequence when
\* it is requested and the chunks outnumber intermediateN; otherwise the
\* request makes a single rerank call on the input chunks
C25_MultiStageTwoCallsWhenMoreChunks ==
    AdvancedDone
        => IF multiStage /\ MoreChunksThanIntermediateN
           THEN TwoStages
           ELSE /\ rerankChunksCalls = 1
                /\ firstStage = NoResponse
                /\ response.originalCount = Len(inputChunks)

\* three chunks reduced to two and then to one
C25_Witness ==
    /\ AdvancedDone
    /\ multiStage
    /\ rerankChunksCalls = 2
    /\ Len(inputChunks) = 3
    /\ Len(firstStage.results) = 2
    /\ Len(response.results) = 1

----------------------------------------------------------------------------
(* Properties of the order of the stages of retrieveWithMMRAndRerank *)

\* the Reranker is sent the chunks that applyMMR selected from the candidates
RerankerSentMMROutput ==
    /\ mmrResults'.kind = "result"
    /\ Ids(mmrResults'.results) = Ids(applyMMR(Null, candidates', finalK, lambda).chunks)
    /\ rerankRequest'.documents = prepareDocuments(mmrResults'.results, TRUE)

\* C26: within one complete-pipeline request the similarity search starts only
\* after the embedding returned, MMR selection runs only after the search
\* returned, and the Reranker is invoked only after MMR selection finished and
\* only on the output of MMR
C26_StagesInStrictSequence ==
    [][op = "pipeline"
         => /\ pc' = "awaitSearch" => pc = "awaitEmbedding"
            /\ pc = "awaitEmbedding"
                 => candidates' = <<>> /\ mmrCalls' = 0 /\ rerankRequest' = NoRequest
            /\ mmrCalls' # mmrCalls => pc = "awaitSearch" /\ mmrCalls = 0
            /\ rerankRequest' # rerankRequest
                 => pc = "awaitSearch" /\ mmrCalls' = 1 /\ RerankerSentMMROutput
            /\ rerankCalls' # rerankCalls
                 => /\ pc = "awaitRerank"
                    /\ mmrCalls = 1
                    /\ rerankRequest.documents = prepareDocuments(mmrResults.results, TRUE)]_vars

\* the Reranker has been invoked on two chunks that MMR selected out of three
C26_Witness ==
    /\ op = "pipeline"
    /\ pc = "awaitRerank"
    /\ Len(candidates) = 3
    /\ Len(rerankRequest.documents) = 2
    /\ Len(mmrResults.results) = 2

----------------------------------------------------------------------------
(* Properties of the queries of multiStepRetrieve *)

OriginalQuery == [query |-> ValidQuery, context |-> "", topResult |-> <<>>]

\* the original query followed by the first 100 characters of the content of
\* one top result
ClaimedFollowUp(topResult) ==
    [query |-> ValidQuery,
     context |-> "",
     topResult |-> <<[id |-> topResult.id,
                      chars |-> IF topResult.content < 100 THEN topResult.content
                                ELSE 100]>>]

\* C27: multi-step retrieval runs exactly `steps` MMR retrievals one after
\* another; the query of step 1 is the original query, and after each step
\* except the last that returned a result the query of the next step is the
\* original query followed by the first 100 characters of the content of that
\* step's top result, earlier augmentations not being kept
C27_StepQueriesFollowTopResult ==
    [][op = "multistep"
         => /\ embedded[1] = OriginalQuery
            /\ step' # step
                 => /\ step' = step + 1
                    /\ pc = "awaitSearch"
                    /\ Len(embedded) = step + 1
            /\ (step' # step /\ step' < steps)
                 => /\ pc' = "awaitEmbedding"
                    /\ Len(embedded') = step' + 1
                    /\ Len(mmrResults'.results) > 0
                         => embedded'[step' + 1] = ClaimedFollowUp(mmrResults'.results[1])
            /\ pc' = "returned"
                 => step' = steps /\ Len(embedded') = steps]_vars

\* three steps ran, the second and the third on the top results of the steps
\* before them, which differ
C27_Witness ==
    /\ MultiStepDone
    /\ steps = 3
    /\ Len(embedded) = 3
    /\ embedded[2].topResult # <<>>
    /\ embedded[3].topResult # <<>>
    /\ embedded[2].topResult # embedded[3].topResult

----------------------------------------------------------------------------
(* Properties of the pauses of batchRerank *)

\* C28: in batchRerank the Reranker call for a later pair starts only after the
\* pair before it finished and a delay elapsed, whether that pair succeeded or
\* failed, and no delay follows the last pair
C28_DelayBetweenConsecutivePairs ==
    [][op = "batch"
         => /\ (pairIndex' # pairIndex /\ pc' = "awaitRerank") => pc = "batchPause"
            /\ pc' = "batchPause" => pairIndex' < Len(queryChunkPairs) - 1]_vars

----------------------------------------------------------------------------
(* Properties of the filters of hybridRetrieve *)

\* C29: when hybrid retrieval is called with a source filter every chunk of
\* its result has that source, the filter constraining the keyword search as
\* well as the dense search
C29_FilterConstrainsBothSearches ==
    (HybridDone /\ filterSource # NoSource)
        => \A i \in 1..Len(response.results) :
             DocumentSource(response.results[i].id) = filterSource

----------------------------------------------------------------------------
(* Properties of two concurrent requests *)

\* a rerankChunks call running alone on two chunks with topN 1, after the
\* Reranker outcomes of externals, the next call being attempt number n: it
\* has returned, has thrown, or is pending, after some Reranker attempts
RECURSIVE AloneRerank(_, _, _)
AloneRerank(externals, n, made) ==
    IF externals = <<>>
    THEN [pc |-> "pending", result |-> NoResponse, calls |-> made]
    ELSE IF Head(externals).kind = "response"
    THEN [pc |-> "returned",
          result |-> [kind |-> "result"]
                        @@ rerankChunksValue(TwoChunks, 1, Head(externals).response),
          calls |-> made + 1]
    ELSE IF n < 3
    THEN AloneRerank(Tail(externals), n + 1, made + 1)
    ELSE [pc |-> "threw",
          result |-> Failure(<<"Reranking failed", CohereErrorMessage(Head(externals).error)>>),
          calls |-> made + 1]

\* a retrieveWithMMR call running alone with finalK 1 after the outcomes of
\* externals
AloneRetrieve(externals) ==
    IF externals = <<>> \/ externals = <<[kind |-> "embedding"]>>
    THEN [pc |-> "pending", result |-> NoResponse, calls |-> 0]
    ELSE IF externals[Len(externals)].kind = "embedding error"
    THEN [pc |-> "threw",
          result |-> Failure(<<"Vector retrieval failed", "Failed to generate embedding">>),
          calls |-> 0]
    ELSE IF externals[Len(externals)].kind = "search error"
    THEN [pc |-> "threw",
          result |-> Failure(<<"Vector retrieval failed", "Database query failed">>),
          calls |-> 0]
    ELSE [pc |-> "returned",
          result |-> retrieveWithMMRValue(externals[Len(externals)].rows, 1, 7, TRUE),
          calls |-> 0]

Alone(request) ==
    IF request.kind = "rerank" THEN AloneRerank(request.externals, 1, 0)
    ELSE AloneRetrieve(request.externals)

\* how far the request is, what it returned or threw, and its Reranker attempts
Outcome(request) ==
    [pc |-> IF request.pc \in {"returned", "threw"} THEN request.pc ELSE "pending",
     result |-> request.result,
     calls |-> request.calls]

\* C30: for any interleaving of two retrieval or rerank requests on the same
\* instances, the result of each request and its number of Reranker attempts
\* are what they would be if the request ran alone against the same external
\* responses, and no field of the service instances is modified
C30_ConcurrentRequestsDoNotInterfere ==
    op = "concurrent"
        => /\ \A r \in Requests : Outcome(requests[r]) = Alone(requests[r])
           /\ retriever = RetrieverFields
           /\ reranker = RerankerFields

\* both requests are in flight in the middle of their retries: the first waits
\* for its first retry delay while the second is in its third Reranker call
C30_Witness ==
    /\ op = "concurrent"
    /\ requests[1].pc = "awaitDelay"
    /\ requests[1].calls = 1
    /\ requests[2].pc = "awaitRerank"
    /\ requests[2].calls = 2
    /\ requests[2].attempt = 3

====
